---- MODULE Spec2Model ----
(***************************************************************************)
(* Verification model of the SLSA beach-analysis scripts.                  *)
(*                                                                         *)
(* Two families of scripts are modelled as run-to-completion state         *)
(* machines:                                                               *)
(*   - the coastline buffer scripts (aus coast polygon.py,                 *)
(*     coastline_closedloops.py, coast_polygons_mainland_tas.py,           *)
(*     coastline_coastalfeatures_combined.py), specifications SpecBuf and  *)
(*     SpecUnion;                                                          *)
(*   - the grid tilers (restartable tile tiler, suburb tiler, chunk        *)
(*     tiler), specification SpecTile.                                     *)
(*                                                                         *)
(* The geometry library (shapely/geopandas) and the GIS engine (arcpy) are *)
(* external: every call into them is a nondeterministic choice among the   *)
(* outcomes the call can have (throw, empty result, result of some kind).  *)
(* SpecBuf explores every outcome of the buffering calls and keeps the     *)
(* union/repair calls on their normal outcome; SpecUnion does the          *)
(* opposite.  Both run every script from its input to its output step.     *)
(* SpecScenario runs the scripts on the lengths of the end-to-end scenario  *)
(* with every library call on its normal outcome.                           *)
(***************************************************************************)
EXTENDS Integers, Sequences, FiniteSets, TLC

\* ---------------------------------------------------------------- bounds
MaxLines == 2      \* coastline features left after the year filter
MaxParts == 3      \* parts of the initial unified buffer
MaxMembers == 2    \* members of a GeometryCollection returned by a union
MaxUnits == 3      \* tiles / suburbs / chunks in a tiler's work list
ScenarioLines == 3 \* coastline features of the end-to-end scenario

\* ------------------------------------------------------- program constants
Threshold_polygon == 100000
Threshold_closedloops == 260000
CeilingRestart == 1000000
CeilingSuburb == 10000000
CeilingChunk == 10000000
CellSize == 10

VARIABLES
    focus,            \* what is explored in full ("buffer" / "union" / "scenario")
    script,           \* which buffer script runs
    pc,               \* position in the script
    gdf,              \* lengths of the features left by the year filter
    nparts,           \* per feature: the number of LineStrings it is made of
    crs,              \* coordinate reference system of the input layer
    main_coast,       \* indices of gdf classified mainland
    islands,          \* indices of gdf classified island
    buffered_pieces,  \* number of pieces appended in STEP 1
    temp_buffer,      \* initial unified buffer
    main_polygons,    \* the (up to) two largest parts
    other_polygons,   \* the remaining parts, or Undefined
    calls,            \* library buffer calls made per main polygon, with outcomes
    all_buffers,      \* buffers handed to the union
    unionThrew,       \* unary_union(all_buffers) raised
    skippedPairs,     \* indices whose pairwise union raised in the fallback
    merged,           \* indices of all_buffers unioned into combined_raw, in order
    combined_raw,     \* result of the union step
    flattened,        \* result of the flatten step
    repairRes,        \* per flattened geometry: what the validity repair saw
    valid_geoms,      \* result of the validity repair
    final_geoms,      \* combined script: geometries after the water-body merge
    output,           \* the written layer, or NotWritten
    log,              \* set of console messages printed
    tfocus,           \* what is explored in full: the units' outcomes or the tile grid
                      \* and the suburb names ("units" / "grid")
    tiler,            \* which tiler runs
    tpc,              \* position in the tiler's main
    tiling,           \* what create_processing_tiles computed and returned
    start_tile_id,    \* restart tiler: the resume identifier
    existing_fishnets,\* restart tiler: the output layers found before the loop
    units,            \* identifiers (suburb tiler: names) handed to process_*, in order
    done,             \* per processed unit: what process_* did
    successful,       \* tally
    failed,           \* tally
    skipped,          \* tally
    successful_layers,\* suburb / chunk tiler: names of the layers to merge
    layers,           \* names of the per-unit output layers present in the workspace
    merge,            \* what the final merge step did
    retr,             \* which retrieval loop runs
    rpc,              \* position in the retrieval loop
    nrows,            \* number of rows of the input table
    cursor,           \* number of rows consumed so far
    outcomes,         \* per consumed row: the request and what happened to it
    batch_results,    \* records of the batch in progress
    results,          \* records collected so far (all_results / results)
    files,            \* intermediate files written, in order
    trace,            \* external calls and sleeps, in order
    job,              \* which layer-combining code runs
    jpc,              \* position in it
    base_crs,         \* reference system of the layer the others are combined with
    other_crs,        \* reference systems of the other layers, as loaded
    ops,              \* spatial operations executed, with both operands' systems
    fn,               \* which SILO point-data function is called
    spc,              \* position in the call
    args,             \* the arguments of the call
    request,          \* the HTTP request sent, or NoRequest
    returned          \* what the call returned or raised

bufVars == <<focus, script, pc, gdf, nparts, crs, main_coast, islands, buffered_pieces,
             temp_buffer, main_polygons, other_polygons, calls, all_buffers,
             unionThrew, skippedPairs, merged, combined_raw, flattened,
             repairRes, valid_geoms, final_geoms, output, log>>
tileVars == <<tfocus, tiler, tpc, tiling, start_tile_id, existing_fishnets, units, done,
              successful, failed, skipped, successful_layers, layers, merge>>
rowVars == <<retr, rpc, nrows, cursor, outcomes, batch_results, results, files, trace>>
joinVars == <<job, jpc, base_crs, other_crs, ops>>
siloVars == <<fn, spc, args, request, returned>>
vars == <<bufVars, tileVars, rowVars, joinVars, siloVars>>

\* ------------------------------------------------------------ generic helpers
SeqsUpTo(S, n) == UNION {[1..k -> S] : k \in 0..n}
Range(s) == {s[i] : i \in 1..Len(s)}

\* a name that was never assigned (other_polygons when only one polygon exists)
Undefined == [def |-> FALSE, v |-> <<>>]
Defined(x) == [def |-> TRUE, v |-> x]
NotWritten == [written |-> FALSE, geoms |-> <<>>, crs |-> "", files |-> <<>>]
\* the output frame written without a coordinate reference system
OutputLayerNoCrs(gs, c, fs) == [written |-> TRUE, geoms |-> gs, crs |-> "", files |-> fs]
\* gpd.GeoDataFrame(geometry=gs, crs=gdf.crs) written to the files fs
OutputLayer(gs, c, fs) == [written |-> TRUE, geoms |-> gs, crs |-> c, files |-> fs]
NoGeom == [kind |-> "None", empty |-> TRUE, valid |-> TRUE, geoms |-> <<>>]

\* create_processing_tiles returned (None, 0) / the merge step was not reached
NoTiling == [ok |-> FALSE, count |-> 0, width |-> 0, height |-> 0, cols |-> 0,
             rows |-> 0, retained |-> {}, tile_ids |-> <<>>]
NoMerge == [attempted |-> FALSE, ok |-> FALSE, inputs |-> {}, before |-> {}]

\* A geometry as the scripts see it: its type, is_empty, is_valid and, for
\* collections, its members.
Geom(k, e, v, gs) == [kind |-> k, empty |-> e, valid |-> v, geoms |-> gs]
Leaf(k, v) == Geom(k, FALSE, v, <<>>)
EmptyCollection == Geom("GeometryCollection", TRUE, TRUE, <<>>)
EmptyPolygon == Geom("Polygon", TRUE, TRUE, <<>>)

AreaKinds == {"Polygon", "MultiPolygon"}
IsArea(g) == g.kind \in AreaKinds

\* ------------------------------------------------ classification by length
\* aus coast polygon.py:18 / coastline_closedloops.py:17: length_m > threshold
MainCoastGe(g, t) == {i \in DOMAIN g : g[i] >= t}
MainCoast(g, t) == {i \in DOMAIN g : g[i] > t}
\* aus coast polygon.py:19 / coastline_closedloops.py:18: length_m <= threshold
Islands(g, t) == {i \in DOMAIN g : g[i] <= t}

Threshold(s) == IF s = "polygon" THEN Threshold_polygon ELSE Threshold_closedloops

\* ascending enumeration of a set of indices (row order of a filtered frame)
RECURSIVE SetToSeq(_)
SetToSeq(S) ==
    IF S = {} THEN <<>>
    ELSE LET m == CHOOSE x \in S : \A y \in S : x <= y
         IN <<m>> \o SetToSeq(S \ {m})

\* ------------------------------------------- STEP 2: the two largest polygons
\* sorted(temp_buffer.geoms, key=area, reverse=True): stable, descending
RECURSIVE InsertDesc(_, _)
InsertDesc(x, s) ==
    IF s = <<>> THEN <<x>>
    ELSE IF Head(s).area >= x.area THEN <<Head(s)>> \o InsertDesc(x, Tail(s))
    ELSE <<x>> \o s

RECURSIVE SortDescFrom(_, _, _)
SortDescFrom(parts, k, acc) ==
    IF k > Len(parts) THEN acc
    ELSE SortDescFrom(parts, k + 1, InsertDesc([id |-> k, area |-> parts[k]], acc))

SortDesc(parts) == SortDescFrom(parts, 1, <<>>)

\* coast_polygons_mainland_tas.py:51-70, coastline_coastalfeatures_combined.py:47-66
DispatchStrict(t) ==
    IF t.kind = "MultiPolygon" /\ Len(t.parts) >= 2
    THEN LET sp == SortDesc(t.parts)
         IN [abort |-> FALSE, main |-> SubSeq(sp, 1, 2),
             other |-> Defined(SubSeq(sp, 3, Len(sp))), msg |-> "selected_two_largest"]
    ELSE [abort |-> TRUE, main |-> <<>>, other |-> Undefined, msg |-> "type_error"]

\* the dispatch taking the first two parts in the order the union gave them
DispatchUnsorted(t) ==
    IF t.kind = "Polygon"
    THEN [abort |-> FALSE, main |-> <<[id |-> 1, area |-> t.parts[1]]>>,
          other |-> Undefined, msg |-> "only_one_main_polygon"]
    ELSE IF t.kind = "MultiPolygon"
    THEN LET sp == [k \in 1..Len(t.parts) |-> [id |-> k, area |-> t.parts[k]]]
         IN IF Len(sp) >= 2
            THEN [abort |-> FALSE, main |-> SubSeq(sp, 1, 2),
                  other |-> Defined(SubSeq(sp, 3, Len(sp))), msg |-> "selected_two_largest"]
            ELSE [abort |-> FALSE, main |-> sp, other |-> Defined(<<>>),
                  msg |-> "only_n_polygons_using_all"]
    ELSE [abort |-> TRUE, main |-> <<>>, other |-> Undefined, msg |-> "type_error"]

Dispatch(t) ==
    IF t.kind = "Polygon"
    THEN [abort |-> FALSE, main |-> <<[id |-> 1, area |-> t.parts[1]]>>,
          other |-> Undefined, msg |-> "only_one_main_polygon"]
    ELSE IF t.kind = "MultiPolygon"
    THEN LET sp == SortDesc(t.parts)
         IN IF Len(sp) >= 2
            THEN [abort |-> FALSE, main |-> SubSeq(sp, 1, 2),
                  other |-> Defined(SubSeq(sp, 3, Len(sp))), msg |-> "selected_two_largest"]
            ELSE [abort |-> FALSE, main |-> sp, other |-> Defined(<<>>),
                  msg |-> "only_n_polygons_using_all"]
    ELSE [abort |-> TRUE, main |-> <<>>, other |-> Undefined, msg |-> "type_error"]

\* STEP 4 guard: 'other_polygons' in locals() and other_polygons
OtherIslands(o) == IF o.def THEN o.v ELSE <<>>

\* -------------------------------------------------- STEP 3: landward buffer
Outcome == {"throw", "empty", "ok"}
DistTas == <<-2000, -1000, -500>>
DistCombined == <<-2000, -1500>>
NoBuffer == [d |-> 0, st |-> "none"]

\* coast_polygons_mainland_tas.py:82-90: for d in [...]: try buffer; break on
\* the first non-empty result; an exception is printed and the loop goes on.
RECURSIVE LandwardLoopNoBreak(_, _, _, _)
LandwardLoopNoBreak(ds, oc, k, lb) ==
    IF k > Len(ds) THEN [tried |-> <<>>, lb |-> lb]
    ELSE LET r == LandwardLoopNoBreak(ds, oc, k + 1,
                      IF oc[k] = "throw" THEN lb ELSE [d |-> ds[k], st |-> oc[k]])
         IN [tried |-> <<[d |-> ds[k], oc |-> oc[k]]>> \o r.tried, lb |-> r.lb]

RECURSIVE LandwardLoop(_, _, _, _)
LandwardLoop(ds, oc, k, lb) ==
    IF k > Len(ds) THEN [tried |-> <<>>, lb |-> lb]
    ELSE LET me == <<[d |-> ds[k], oc |-> oc[k]]>>
         IN IF oc[k] = "throw"
            THEN LET r == LandwardLoop(ds, oc, k + 1, lb)
                 IN [tried |-> me \o r.tried, lb |-> r.lb]
            ELSE IF oc[k] = "ok"
            THEN [tried |-> me, lb |-> [d |-> ds[k], st |-> "ok"]]
            ELSE LET r == LandwardLoop(ds, oc, k + 1, [d |-> ds[k], st |-> "empty"])
                 IN [tried |-> me \o r.tried, lb |-> r.lb]

\* coastline_coastalfeatures_combined.py:78-89: try -2000; only an exception
\* leads to the -1500 fallback.
NestedLandward(ds, oc) ==
    IF oc[1] # "throw"
    THEN [tried |-> <<[d |-> ds[1], oc |-> oc[1]]>>, lb |-> [d |-> ds[1], st |-> oc[1]]]
    ELSE [tried |-> <<[d |-> ds[1], oc |-> oc[1]], [d |-> ds[2], oc |-> oc[2]]>>,
          lb |-> IF oc[2] # "throw" THEN [d |-> ds[2], st |-> oc[2]] ELSE NoBuffer]

Landward(s, oc) ==
    IF s = "tas" THEN LandwardLoop(DistTas, oc, 1, NoBuffer)
    ELSE NestedLandward(DistCombined, oc)

Distances(s) == IF s = "tas" THEN DistTas ELSE DistCombined

\* lines 99-103: append the landward and the oceanward buffer when set and
\* not empty
PolygonBuffers(p, lb, ocean) ==
    (IF lb.st = "ok"
     THEN <<[side |-> "landward", of |-> p, d |-> lb.d, empty |-> FALSE]>> ELSE <<>>)
    \o
    (IF ocean = "ok"
     THEN <<[side |-> "oceanward", of |-> p, d |-> 0, empty |-> FALSE]>> ELSE <<>>)

\* ------------------------------------------------ STEP 5: union with fallback
\* lines 125-130: combined_raw = all_buffers[0]; for buff in all_buffers[1:]:
\* try union, except: print and go on.  The accumulator is the sequence of
\* indices of all_buffers unioned into it so far.
RECURSIVE FoldLeftStop(_, _, _, _)
FoldLeftStop(n, throws, k, acc) ==
    IF k > n THEN acc
    ELSE IF throws[k] THEN acc
    ELSE FoldLeftStop(n, throws, k + 1, Append(acc, k))

RECURSIVE FoldLeft(_, _, _, _)
FoldLeft(n, throws, k, acc) ==
    IF k > n THEN acc
    ELSE FoldLeft(n, throws, k + 1, IF throws[k] THEN acc ELSE Append(acc, k))

\* ------------------------------------------------------- STEP 6: flatten
KeepAreas(gs) == SelectSeq(gs, IsArea)

\* shapely 1.x multi-part geometries are iterable
HasIter(g) == g.kind \in {"MultiLineString", "MultiPoint"}

RECURSIVE FlattenIter(_)
FlattenIter(gs) ==
    IF gs = <<>> THEN <<>>
    ELSE LET g == Head(gs)
         IN (IF IsArea(g) THEN <<g>>
             ELSE IF g.kind = "GeometryCollection" THEN KeepAreas(g.geoms)
             ELSE <<>>) \o FlattenIter(Tail(gs))

\* the flatten step with every member of a collection kept
FlattenUnfiltered(c) ==
    IF IsArea(c) THEN <<c>>
    ELSE IF c.kind = "GeometryCollection" THEN c.geoms
    ELSE IF HasIter(c) THEN c.geoms
    ELSE <<>>

\* aus coast polygon.py:60-70, coastline_closedloops.py:79-89,
\* coast_polygons_mainland_tas.py:133-143, combined:133-143
Flatten(c) ==
    IF IsArea(c) THEN <<c>>
    ELSE IF c.kind = "GeometryCollection" THEN KeepAreas(c.geoms)
    ELSE IF HasIter(c) THEN FlattenIter(c.geoms)
    ELSE <<>>

\* coastline_coastalfeatures_combined.py:207-211 (no iterable branch)
FlattenFinal(c) ==
    IF IsArea(c) THEN <<c>>
    ELSE IF c.kind = "GeometryCollection" THEN KeepAreas(c.geoms)
    ELSE <<>>

\* ------------------------------------------------------ validity repair
RepairOutcome == {"fixed_ok", "fixed_invalid", "fixed_empty", "throw"}

\* geom.buffer(0) as the library returned it
Fixed(g, r) ==
    IF r = "fixed_ok" THEN [g EXCEPT !.valid = TRUE]
    ELSE IF r = "fixed_invalid" THEN g
    ELSE EmptyPolygon

RECURSIVE RepairKeepEmpty(_, _, _)
RepairKeepEmpty(fl, res, k) ==
    IF k > Len(fl) THEN <<>>
    ELSE (IF fl[k].valid THEN <<fl[k]>>
          ELSE IF res[k] \in {"fixed_ok", "fixed_empty"} THEN <<Fixed(fl[k], res[k])>>
          ELSE <<>>) \o RepairKeepEmpty(fl, res, k + 1)

\* coast_polygons_mainland_tas.py:148-158, combined:148-158
RECURSIVE Repair(_, _, _)
Repair(fl, res, k) ==
    IF k > Len(fl) THEN <<>>
    ELSE (IF fl[k].valid THEN <<fl[k]>>
          ELSE IF res[k] = "throw" THEN <<>>
          ELSE LET fixed == Fixed(fl[k], res[k])
               IN IF fixed.valid /\ ~fixed.empty THEN <<fixed>> ELSE <<>>)
         \o Repair(fl, res, k + 1)

\* ------------------------------------------------ the environment's choices
Scripts == {"polygon", "closedloops", "tas", "combined"}
CRSs == {"EPSG:3577", "EPSG:4326"}
LengthScripts == {"polygon", "closedloops"}
TwoLargestScripts == {"tas", "combined"}
Areas == {1, 2}

\* lengths around the script's threshold; the two-largest scripts never
\* compute a length
Lengths(s) ==
    IF s \in LengthScripts THEN {Threshold(s) - 1, Threshold(s), Threshold(s) + 1}
    ELSE {0}
Inputs(s) == SeqsUpTo(Lengths(s), MaxLines)

\* the end-to-end scenario: lines of 300 km, 50 km and 10 km, in any number
\* and order, each a LineString or a MultiLineString of two parts
ScenarioLengths == {300000, 50000, 10000}
ScenarioInputs == SeqsUpTo(ScenarioLengths, ScenarioLines)
PartCounts == IF focus = "scenario" THEN {1, 2} ELSE {1}

BufOutcomes ==
    IF focus = "buffer" THEN Outcome
    ELSE IF focus = "scenario" THEN {"ok"}
    ELSE {"empty", "ok"}
LineOutcomes ==
    IF focus = "buffer" THEN Outcome
    ELSE IF focus = "scenario" THEN {"ok"}
    ELSE {"empty", "ok"}
PieceOutcomes == IF focus = "buffer" THEN {"none", "throw", "empty", "ok"} ELSE {"ok"}
PartAreas == IF focus = "buffer" THEN Areas ELSE {1}
MayThrow(bufs) == IF focus = "union" /\ bufs # <<>> THEN BOOLEAN ELSE {FALSE}

\* results of unary_union over n >= 1 non-empty pieces (STEP 1)
TempResults(n) ==
    IF n = 0 THEN {[kind |-> "GeometryCollection", parts |-> <<>>]}
    ELSE {[kind |-> "Polygon", parts |-> <<a>>] : a \in PartAreas}
         \cup {[kind |-> "MultiPolygon", parts |-> ps] :
                   ps \in UNION {[1..k -> PartAreas] : k \in 1..MaxParts}}

Members ==
    {Leaf("Polygon", TRUE), Leaf("Polygon", FALSE), Leaf("LineString", TRUE),
     Geom("GeometryCollection", FALSE, TRUE, <<Leaf("MultiPolygon", TRUE)>>)}
AreaResults == {Leaf(k, v) : k \in AreaKinds, v \in BOOLEAN}
CollectionResults ==
    {Geom("GeometryCollection", FALSE, TRUE, ms) :
         ms \in UNION {[1..k -> Members] : k \in 1..MaxMembers}}
LineResults ==
    {Geom("MultiLineString", FALSE, TRUE, <<Leaf("LineString", TRUE)>>)}

AllEmpty(bufs) == \A i \in 1..Len(bufs) : bufs[i].empty

\* results of unary_union(all_buffers) when it returns
UnionResults(bufs) ==
    IF bufs = <<>> THEN {EmptyCollection}
    ELSE IF AllEmpty(bufs) THEN {EmptyPolygon, EmptyCollection}
    ELSE IF focus = "buffer" THEN {Leaf("Polygon", TRUE)}
    ELSE IF focus = "scenario" THEN AreaResults
    ELSE AreaResults \cup CollectionResults \cup LineResults

\* results of the pairwise fold over the indices acc
FoldResults(acc) ==
    IF Len(acc) = 1 THEN {Leaf("Polygon", v) : v \in BOOLEAN}
    ELSE AreaResults

RepairOutcomes == IF focus = "union" THEN RepairOutcome ELSE {"fixed_ok"}

\* outcomes of the water-body merge: the read or a union raised, or
\* final_union is one of these
WaterResults ==
    IF focus = "buffer" THEN {Leaf("Polygon", TRUE)}
    ELSE {Leaf("Polygon", TRUE), Leaf("MultiPolygon", FALSE),
          Geom("GeometryCollection", FALSE, TRUE,
               <<Leaf("Polygon", FALSE), Leaf("LineString", TRUE)>>),
          Geom("GeometryCollection", FALSE, TRUE, <<Leaf("Point", TRUE)>>),
          NoGeom}

\* =========================================================================
\* The coastline buffer scripts
\* =========================================================================
UnsetTemp == [kind |-> "unset", parts |-> <<>>]

TileIdle ==
    /\ tfocus = "none" /\ tiler = "none" /\ tpc = "idle"
    /\ tiling = NoTiling /\ start_tile_id = 0 /\ existing_fishnets = {}
    /\ units = <<>> /\ done = <<>>
    /\ successful = 0 /\ failed = 0 /\ skipped = 0
    /\ successful_layers = <<>> /\ layers = {} /\ merge = NoMerge

RowIdle ==
    /\ retr = "none" /\ rpc = "idle" /\ nrows = 0 /\ cursor = 0
    /\ outcomes = <<>> /\ batch_results = <<>> /\ results = <<>>
    /\ files = <<>> /\ trace = <<>>

\* no request was sent
NoRequest == [sent |-> FALSE, endpoint |-> "", station |-> "absent", lat |-> "absent",
              lon |-> "absent"]
NoArgs == [station |-> "None", lat |-> "None", lon |-> "None", dates |-> FALSE]

JoinIdle ==
    /\ job = "none" /\ jpc = "idle" /\ base_crs = "" /\ other_crs = <<>> /\ ops = <<>>

SiloIdle ==
    /\ fn = "none" /\ spc = "idle" /\ args = NoArgs /\ request = NoRequest
    /\ returned = "unset"

\* lines 5-11 of each script: read the shapefile, keep year == 2023
InitScript(f) ==
    /\ focus = f
    /\ script \in Scripts
    /\ gdf \in (IF f # "scenario" THEN Inputs(script)
                 ELSE IF script \in LengthScripts THEN ScenarioInputs
                 ELSE {<<0>>})
    /\ nparts \in [1..Len(gdf) -> (IF script = "polygon" THEN PartCounts ELSE {1})]
    /\ crs \in (IF f = "union" THEN CRSs ELSE {"EPSG:3577"})
    /\ pc = "start"
    /\ main_coast = {} /\ islands = {}
    /\ buffered_pieces = 0
    /\ temp_buffer = UnsetTemp
    /\ main_polygons = <<>>
    /\ other_polygons = Undefined
    /\ calls = <<>>
    /\ all_buffers = <<>>
    /\ unionThrew = FALSE /\ skippedPairs = {} /\ merged = <<>>
    /\ combined_raw = NoGeom
    /\ flattened = <<>> /\ repairRes = <<>> /\ valid_geoms = <<>>
    /\ final_geoms = <<>>
    /\ output = NotWritten
    /\ log = {}

\* aus coast polygon.py:16-19, coastline_closedloops.py:15-18
Classify ==
    /\ pc = "start" /\ script \in LengthScripts
    /\ main_coast' = MainCoast(gdf, Threshold(script))
    /\ islands' = Islands(gdf, Threshold(script))
    /\ pc' = "buffer"
    /\ UNCHANGED <<tileVars, rowVars, joinVars, siloVars, focus, script, gdf, nparts, crs, buffered_pieces, temp_buffer, main_polygons,
                   other_polygons, calls, all_buffers, unionThrew, skippedPairs,
                   merged, combined_raw, flattened, repairRes, valid_geoms,
                   final_geoms, output, log>>

LineBuffer(sd, i, oc) == [side |-> sd, of |-> i, d |-> 0, empty |-> (oc = "empty")]
OverSeq(sd, idx, oc) == [k \in 1..Len(idx) |-> LineBuffer(sd, idx[k], oc[idx[k]])]

OverLines(sd, lines, oc) == [k \in 1..Len(lines) |-> LineBuffer(sd, lines[k], oc[k])]

\* one row per feature, whatever it is made of
ExplodeNone(idx, np) == idx

\* aus coast polygon.py:33: main_coast.geometry.explode(index_parts=False),
\* one row per LineString of every feature, in row order
RECURSIVE Explode(_, _)
Explode(idx, np) ==
    IF idx = <<>> THEN <<>>
    ELSE [k \in 1..np[Head(idx)] |-> Head(idx)] \o Explode(Tail(idx), np)

\* aus coast polygon.py:33-43: offset + buffer(1) of every mainland line on
\* both sides, buffer(500) of every island, none of them guarded
BufferLines ==
    /\ pc = "buffer" /\ script = "polygon"
    /\ LET main_lines == Explode(SetToSeq(main_coast), nparts)
           n == Len(main_lines)
       IN \E lo \in [1..n -> LineOutcomes], oo \in [1..n -> LineOutcomes],
             io \in [islands -> LineOutcomes] :
             IF (\E k \in 1..n : lo[k] = "throw" \/ oo[k] = "throw")
                \/ (\E i \in islands : io[i] = "throw")
             THEN /\ pc' = "aborted"
                  /\ log' = log \cup {"uncaught_buffer_error"}
                  /\ UNCHANGED all_buffers
             ELSE /\ all_buffers' = OverLines("landward", main_lines, lo)
                                    \o OverLines("oceanward", main_lines, oo)
                                    \o OverSeq("island", SetToSeq(islands), io)
                  /\ pc' = "union"
                  /\ UNCHANGED log
    /\ UNCHANGED <<tileVars, rowVars, joinVars, siloVars, focus, script, gdf, nparts, crs, main_coast, islands, buffered_pieces,
                   temp_buffer, main_polygons, other_polygons, calls, unionThrew,
                   skippedPairs, merged, combined_raw, flattened, repairRes,
                   valid_geoms, final_geoms, output>>

\* max(temp_buffer.geoms, key=area): the first part of maximal area
MaxByArea(parts) ==
    LET i == CHOOSE j \in 1..Len(parts) :
                 /\ \A k \in 1..Len(parts) : parts[k] <= parts[j]
                 /\ \A k \in 1..(j - 1) : parts[k] < parts[j]
    IN [id |-> i, area |-> parts[i]]

\* coastline_closedloops.py:23-41: union the mainland lines, buffer by 5000,
\* take the polygon (the largest part of a multi-polygon)
Mainland ==
    /\ pc = "buffer" /\ script = "closedloops"
    /\ \E t \in (IF main_coast = {} THEN {[kind |-> "Polygon", parts |-> <<0>>]}
                 ELSE TempResults(Cardinality(main_coast))) :
          /\ temp_buffer' = t
          /\ main_polygons' = <<MaxByArea(t.parts)>>
    /\ log' = log \cup {"created_mainland_polygon"}
    /\ pc' = "buffer_closed"
    /\ UNCHANGED <<tileVars, rowVars, joinVars, siloVars, focus, script, gdf, nparts, crs, main_coast, islands, buffered_pieces,
                   other_polygons, calls, all_buffers, unionThrew, skippedPairs,
                   merged, combined_raw, flattened, repairRes, valid_geoms,
                   final_geoms, output>>

NonEmpty(bufs) == SelectSeq(bufs, LAMBDA b : ~b.empty)

\* coastline_closedloops.py:43-67: buffer(-2000), buffer(500), island
\* buffers, none guarded; non-empty results are appended
BufferClosed ==
    /\ pc = "buffer_closed"
    /\ \E l \in (IF main_polygons[1].area = 0 THEN {"empty"} ELSE LineOutcomes),
          o \in (IF main_polygons[1].area = 0 THEN {"empty"} ELSE LineOutcomes),
          io \in [islands -> LineOutcomes] :
          IF l = "throw" \/ o = "throw" \/ (\E i \in islands : io[i] = "throw")
          THEN /\ pc' = "aborted"
               /\ log' = log \cup {"uncaught_buffer_error"}
               /\ UNCHANGED all_buffers
          ELSE /\ all_buffers' =
                     NonEmpty(<<[side |-> "landward", of |-> 1, d |-> -2000,
                                 empty |-> (l = "empty")],
                                [side |-> "oceanward", of |-> 1, d |-> 0,
                                 empty |-> (o = "empty")]>>
                              \o OverSeq("island", SetToSeq(islands), io))
               /\ pc' = "union"
               /\ UNCHANGED log
    /\ UNCHANGED <<tileVars, rowVars, joinVars, siloVars, focus, script, gdf, nparts, crs, main_coast, islands, buffered_pieces,
                   temp_buffer, main_polygons, other_polygons, calls, unionThrew,
                   skippedPairs, merged, combined_raw, flattened, repairRes,
                   valid_geoms, final_geoms, output>>

\* coast_polygons_mainland_tas.py:29-39, combined:25-35: simplify and buffer
\* each feature; None/empty features, raised errors and empty results add no
\* piece
BufferPieces ==
    /\ pc = "start" /\ script \in TwoLargestScripts
    /\ \E oc \in [1..Len(gdf) -> PieceOutcomes] :
          buffered_pieces' = Cardinality({i \in 1..Len(gdf) : oc[i] = "ok"})
    /\ pc' = "merge"
    /\ UNCHANGED <<tileVars, rowVars, joinVars, siloVars, focus, script, gdf, nparts, crs, main_coast, islands, temp_buffer,
                   main_polygons, other_polygons, calls, all_buffers, unionThrew,
                   skippedPairs, merged, combined_raw, flattened, repairRes,
                   valid_geoms, final_geoms, output, log>>

\* coast_polygons_mainland_tas.py:43-47, combined:39-43: union of the pieces,
\* SystemExit when it raises
MergePieces ==
    /\ pc = "merge"
    /\ \E threw \in (IF focus = "buffer" /\ buffered_pieces > 0 THEN BOOLEAN ELSE {FALSE}) :
          IF threw
          THEN /\ pc' = "aborted"
               /\ log' = log \cup {"aborting_due_to_union_failure"}
               /\ UNCHANGED temp_buffer
          ELSE /\ temp_buffer' \in TempResults(buffered_pieces)
               /\ pc' = "dispatch"
               /\ UNCHANGED log
    /\ UNCHANGED <<tileVars, rowVars, joinVars, siloVars, focus, script, gdf, nparts, crs, main_coast, islands, buffered_pieces,
                   main_polygons, other_polygons, calls, all_buffers, unionThrew,
                   skippedPairs, merged, combined_raw, flattened, repairRes,
                   valid_geoms, final_geoms, output>>

\* coast_polygons_mainland_tas.py:50-70, combined:46-66
DispatchStep ==
    /\ pc = "dispatch"
    /\ LET r == Dispatch(temp_buffer)
       IN /\ main_polygons' = r.main
          /\ other_polygons' = r.other
          /\ log' = log \cup {r.msg}
          /\ pc' = IF r.abort THEN "aborted" ELSE "buffer"
    /\ UNCHANGED <<tileVars, rowVars, joinVars, siloVars, focus, script, gdf, nparts, crs, main_coast, islands, buffered_pieces,
                   temp_buffer, calls, all_buffers, unionThrew, skippedPairs,
                   merged, combined_raw, flattened, repairRes, valid_geoms,
                   final_geoms, output>>

\* coast_polygons_mainland_tas.py:75-103, combined:71-103: one iteration of
\* the loop over main_polygons
BufferPolygon ==
    /\ pc = "buffer" /\ script \in TwoLargestScripts
    /\ Len(calls) < Len(main_polygons)
    /\ LET i == Len(calls) + 1
           p == main_polygons[i].id
       IN \E oc \in [1..Len(Distances(script)) -> BufOutcomes], ocean \in BufOutcomes :
             LET r == Landward(script, oc)
             IN /\ calls' = Append(calls, [poly |-> p, tried |-> r.tried,
                                           lb |-> r.lb, ocean |-> ocean])
                /\ all_buffers' = all_buffers \o PolygonBuffers(p, r.lb, ocean)
                /\ pc' = IF i = Len(main_polygons) THEN "islands" ELSE "buffer"
    /\ UNCHANGED <<tileVars, rowVars, joinVars, siloVars, focus, script, gdf, nparts, crs, main_coast, islands, buffered_pieces,
                   temp_buffer, main_polygons, other_polygons, unionThrew,
                   skippedPairs, merged, combined_raw, flattened, repairRes,
                   valid_geoms, final_geoms, output, log>>

\* coast_polygons_mainland_tas.py:105-113, combined:105-113: the other
\* islands, unguarded
BufferIslands ==
    /\ pc = "islands"
    /\ LET os == OtherIslands(other_polygons)
       IN \E io \in [1..Len(os) -> BufOutcomes] :
             IF \E k \in 1..Len(os) : io[k] = "throw"
             THEN /\ pc' = "aborted"
                  /\ log' = log \cup {"uncaught_buffer_error"}
                  /\ UNCHANGED all_buffers
             ELSE /\ all_buffers' = all_buffers \o
                        NonEmpty([k \in 1..Len(os) |->
                                     [side |-> "island", of |-> os[k].id, d |-> 0,
                                      empty |-> (io[k] = "empty")]])
                  /\ pc' = "union"
                  /\ log' = IF os # <<>> THEN log \cup {"added_island_buffers"} ELSE log
    /\ UNCHANGED <<tileVars, rowVars, joinVars, siloVars, focus, script, gdf, nparts, crs, main_coast, islands, buffered_pieces,
                   temp_buffer, main_polygons, other_polygons, calls, unionThrew,
                   skippedPairs, merged, combined_raw, flattened, repairRes,
                   valid_geoms, final_geoms, output>>

\* STEP 5.  aus coast polygon.py:53 and coastline_closedloops.py:74 call
\* unary_union unguarded; coast_polygons_mainland_tas.py:118-130 and
\* combined:118-130 fall back to the pairwise fold.
UnionStep ==
    /\ pc = "union"
    /\ LET n == Len(all_buffers)
       IN \E threw \in MayThrow(all_buffers) :
             IF ~threw
             THEN /\ combined_raw' \in UnionResults(all_buffers)
                  /\ merged' = [k \in 1..n |-> k]
                  /\ pc' = "flatten"
                  /\ UNCHANGED <<unionThrew, skippedPairs, log>>
             ELSE IF script \in LengthScripts
             THEN /\ pc' = "aborted"
                  /\ unionThrew' = TRUE
                  /\ log' = log \cup {"uncaught_union_error"}
                  /\ UNCHANGED <<combined_raw, merged, skippedPairs>>
             ELSE \E th \in [2..n -> BOOLEAN] :
                     /\ unionThrew' = TRUE
                     /\ merged' = FoldLeft(n, th, 2, <<1>>)
                     /\ skippedPairs' = {k \in 2..n : th[k]}
                     /\ combined_raw' \in FoldResults(FoldLeft(n, th, 2, <<1>>))
                     /\ log' = log \cup {"error_in_union_operation"}
                     /\ pc' = "flatten"
    /\ UNCHANGED <<tileVars, rowVars, joinVars, siloVars, focus, script, gdf, nparts, crs, main_coast, islands, buffered_pieces,
                   temp_buffer, main_polygons, other_polygons, calls, all_buffers,
                   flattened, repairRes, valid_geoms, final_geoms, output>>

\* STEP 6 (STEP 2 of aus coast polygon.py)
FlattenStep ==
    /\ pc = "flatten"
    /\ flattened' = Flatten(combined_raw)
    /\ pc' = IF script \in TwoLargestScripts THEN "repair" ELSE "write"
    /\ UNCHANGED <<tileVars, rowVars, joinVars, siloVars, focus, script, gdf, nparts, crs, main_coast, islands, buffered_pieces,
                   temp_buffer, main_polygons, other_polygons, calls, all_buffers,
                   unionThrew, skippedPairs, merged, combined_raw, repairRes,
                   valid_geoms, final_geoms, output, log>>

\* coast_polygons_mainland_tas.py:147-160, combined:147-160
RepairStep ==
    /\ pc = "repair"
    /\ \E res \in [1..Len(flattened) -> RepairOutcomes \cup {"valid"}] :
          /\ \A k \in 1..Len(flattened) : (res[k] = "valid") <=> flattened[k].valid
          /\ repairRes' = res
          /\ valid_geoms' = Repair(flattened, res, 1)
    /\ pc' = IF script = "combined" THEN "water" ELSE "write"
    /\ UNCHANGED <<tileVars, rowVars, joinVars, siloVars, focus, script, gdf, nparts, crs, main_coast, islands, buffered_pieces,
                   temp_buffer, main_polygons, other_polygons, calls, all_buffers,
                   unionThrew, skippedPairs, merged, combined_raw, flattened,
                   final_geoms, output, log>>

\* coastline_coastalfeatures_combined.py:162-218: merge with the water
\* bodies; any exception leaves final_geoms = valid_geoms
WaterMerge ==
    /\ pc = "water"
    /\ \E raised \in BOOLEAN :
          IF raised
          THEN /\ final_geoms' = valid_geoms
               /\ log' = log \cup {"continuing_with_just_the_coastal_buffer"}
          ELSE /\ \E fu \in WaterResults : final_geoms' = FlattenFinal(fu)
               /\ UNCHANGED log
    /\ pc' = "write"
    /\ UNCHANGED <<tileVars, rowVars, joinVars, siloVars, focus, script, gdf, nparts, crs, main_coast, islands, buffered_pieces,
                   temp_buffer, main_polygons, other_polygons, calls, all_buffers,
                   unionThrew, skippedPairs, merged, combined_raw, flattened,
                   repairRes, valid_geoms, output>>

Final ==
    IF script \in LengthScripts THEN flattened
    ELSE IF script = "tas" THEN valid_geoms
    ELSE final_geoms

\* combined:224-231 writes the frame as a shapefile and as GeoJSON
OutputFiles == IF script = "combined" THEN <<"shp", "geojson">> ELSE <<"shp">>

\* aus coast polygon.py:76-80, coastline_closedloops.py:95-99,
\* coast_polygons_mainland_tas.py:163-167, combined:221-231
WriteStep ==
    /\ pc = "write"
    /\ output' = OutputLayer(Final, crs, OutputFiles)
    /\ pc' = "done"
    /\ UNCHANGED <<tileVars, rowVars, joinVars, siloVars, focus, script, gdf, nparts, crs, main_coast, islands, buffered_pieces,
                   temp_buffer, main_polygons, other_polygons, calls, all_buffers,
                   unionThrew, skippedPairs, merged, combined_raw, flattened,
                   repairRes, valid_geoms, final_geoms, log>>

NextBuf ==
    \/ Classify
    \/ BufferLines
    \/ Mainland
    \/ BufferClosed
    \/ BufferPieces
    \/ MergePieces
    \/ DispatchStep
    \/ BufferPolygon
    \/ BufferIslands
    \/ UnionStep
    \/ FlattenStep
    \/ RepairStep
    \/ WaterMerge
    \/ WriteStep

InitBuf == InitScript("buffer") /\ TileIdle /\ RowIdle /\ JoinIdle /\ SiloIdle
InitUnion == InitScript("union") /\ TileIdle /\ RowIdle /\ JoinIdle /\ SiloIdle

SpecBuf == InitBuf /\ [][NextBuf]_vars
SpecUnion == InitUnion /\ [][NextBuf]_vars

InitScenario == InitScript("scenario") /\ TileIdle /\ RowIdle /\ JoinIdle /\ SiloIdle
SpecScenario == InitScenario /\ [][NextBuf]_vars

\* =========================================================================
\* Properties of the coastline buffer scripts
\* =========================================================================
Classified == script \in LengthScripts /\ pc # "start"

\* C1: after classification every geometry is in exactly one of main_coast
\* and islands; it is in main_coast iff its length is strictly greater than
\* the threshold, so a length equal to the threshold is an island.
C1_ExactlyOneClass ==
    Classified =>
        \A i \in DOMAIN gdf :
            /\ (i \in main_coast) # (i \in islands)
            /\ (i \in main_coast) <=> (gdf[i] > Threshold(script))
            /\ (gdf[i] = Threshold(script)) => (i \in islands /\ i \notin main_coast)

C1_Witness ==
    /\ Classified /\ pc = "done"
    /\ \E i \in DOMAIN gdf : gdf[i] = Threshold(script) /\ i \in islands
    /\ \E j \in DOMAIN gdf : gdf[j] = Threshold(script) + 1 /\ j \in main_coast

LandwardOf(p) ==
    {j \in 1..Len(all_buffers) :
        all_buffers[j].side = "landward" /\ all_buffers[j].of = p}
OceanwardOf(p) ==
    {j \in 1..Len(all_buffers) :
        all_buffers[j].side = "oceanward" /\ all_buffers[j].of = p}
Abs(x) == IF x < 0 THEN -x ELSE x
AllFailed(c) == \A j \in 1..Len(c.tried) : c.tried[j].oc # "ok"

C2_Attempts ==
    script \in TwoLargestScripts =>
        \A k \in 1..Len(calls) :
            LET c == calls[k]
                D == IF script = "tas" THEN <<-2000, -1000, -500>> ELSE <<-2000, -1500>>
                n == Len(c.tried)
            IN /\ n \in 1..Len(D)
               /\ \A j \in 1..n : c.tried[j].d = D[j]
               /\ \A j \in 1..(Len(D) - 1) : Abs(D[j]) > Abs(D[j + 1])
               /\ \A j \in 1..(n - 1) : c.tried[j].oc # "ok"
               /\ ~AllFailed(c) =>
                     /\ c.tried[n].oc = "ok"
                     /\ Cardinality(LandwardOf(c.poly)) = 1
                     /\ \A b \in LandwardOf(c.poly) : all_buffers[b].d = D[n]
               /\ AllFailed(c) =>
                     /\ LandwardOf(c.poly) = {}
                     /\ c.ocean \in Outcome
                     /\ (c.ocean = "ok") <=> (Cardinality(OceanwardOf(c.poly)) = 1)

C2_NoCrash ==
    (pc = "buffer" /\ script \in TwoLargestScripts) => pc' \in {"buffer", "islands"}

\* C2: for each main polygon the inward distances are tried in the configured
\* order of decreasing magnitude, a later one only after every earlier one
\* failed; the first success is the buffer appended to all_buffers; when all
\* fail the polygon adds no landward buffer, the oceanward buffer is still
\* attempted, and the loop goes on to the next step.
C2_LandwardFallback == [](C2_Attempts) /\ [][C2_NoCrash]_vars

C2_Witness ==
    /\ script = "tas" /\ pc = "done" /\ Len(calls) = 2
    /\ Len(calls[1].tried) = 3 /\ AllFailed(calls[1]) /\ calls[1].ocean = "ok"
    /\ Len(calls[2].tried) = 2 /\ ~AllFailed(calls[2])
    /\ output.geoms # <<>>

AllAreas(gs) == \A k \in 1..Len(gs) : gs[k].kind \in {"Polygon", "MultiPolygon"}

\* C3: the flattened list, and every list derived from it up to the written
\* layer, holds only Polygons and MultiPolygons.
C3_FlattenOnlyAreas ==
    /\ AllAreas(flattened)
    /\ AllAreas(valid_geoms)
    /\ AllAreas(final_geoms)
    /\ AllAreas(output.geoms)

C3_Witness ==
    /\ pc = "done" /\ output.geoms # <<>>
    /\ combined_raw.kind = "GeometryCollection"
    /\ \E k \in 1..Len(combined_raw.geoms) : combined_raw.geoms[k].kind = "LineString"
    /\ \E k \in 1..Len(combined_raw.geoms) : combined_raw.geoms[k].kind = "GeometryCollection"
    /\ Len(flattened) < Len(combined_raw.geoms)

\* C4: every geometry of the written layer is valid and non-empty.
C4_OutputValidNonEmpty ==
    output.written =>
        \A k \in 1..Len(output.geoms) : output.geoms[k].valid /\ ~output.geoms[k].empty

Repaired == script \in TwoLargestScripts /\ pc \in {"water", "write", "done"}
KeptIndices ==
    {k \in 1..Len(flattened) : flattened[k].valid \/ repairRes[k] = "fixed_ok"}

\* C5: valid geometries are kept unchanged, an invalid one is replaced by its
\* zero-distance buffer and kept only when that is valid and non-empty,
\* everything else is dropped and the loop goes on; the kept list is never
\* longer than the flattened list.
C5_RepairKeepsValid ==
    Repaired =>
        LET idx == SetToSeq(KeptIndices)
        IN /\ Len(valid_geoms) = Len(idx)
           /\ Len(valid_geoms) <= Len(flattened)
           /\ \A j \in 1..Len(idx) :
                 /\ j <= Len(valid_geoms)
                 /\ flattened[idx[j]].valid => valid_geoms[j] = flattened[idx[j]]
                 /\ ~flattened[idx[j]].valid =>
                        /\ valid_geoms[j] = [flattened[idx[j]] EXCEPT !.valid = TRUE]
                        /\ ~valid_geoms[j].empty
           /\ \A j \in 1..Len(valid_geoms) : valid_geoms[j].valid

C5_Witness ==
    /\ Repaired /\ pc = "done" /\ Len(flattened) = 2
    /\ repairRes[1] = "throw" /\ repairRes[2] = "fixed_ok"
    /\ Len(valid_geoms) = 1

\* C6: with no feature left by the year filter the script does not abort and
\* writes an empty layer.
C6_EmptyInputEmptyOutput ==
    gdf = <<>> =>
        /\ pc # "aborted"
        /\ pc = "done" => (output.written /\ output.geoms = <<>>)

Increasing(s) == \A a, b \in 1..Len(s) : a < b => s[a] < s[b]

\* C7: when the union of all buffers raises, the accumulator starts as the
\* first buffer, the remaining buffers are unioned in list order, exactly
\* those whose pairwise union raised are left out, and the run goes on.
C7_FoldLeftFallback ==
    (unionThrew /\ script \in TwoLargestScripts) =>
        /\ pc \in {"flatten", "repair", "water", "write", "done"}
        /\ merged # <<>> /\ merged[1] = 1
        /\ Increasing(merged)
        /\ Range(merged) = (1..Len(all_buffers)) \ skippedPairs
        /\ ~combined_raw.empty

C7_Witness ==
    /\ unionThrew /\ pc = "done" /\ script = "tas"
    /\ 2 \in skippedPairs /\ merged = <<1, 3, 4>>

FewerThanTwo ==
    /\ script \in TwoLargestScripts
    /\ pc \notin {"start", "merge", "dispatch"}
    /\ \/ temp_buffer.kind = "Polygon"
       \/ temp_buffer.kind = "MultiPolygon" /\ Len(temp_buffer.parts) < 2

\* C8: an initial unified buffer with fewer than two parts makes all its
\* parts the main polygons, leaves no other island, prints a message and
\* the run goes on to buffering and beyond.
C8_FewerThanTwoParts ==
    FewerThanTwo =>
        /\ pc # "aborted"
        /\ Len(main_polygons) = Len(temp_buffer.parts)
        /\ {main_polygons[k].id : k \in 1..Len(main_polygons)} = 1..Len(temp_buffer.parts)
        /\ OtherIslands(other_polygons) = <<>>
        /\ log \cap {"only_one_main_polygon", "only_n_polygons_using_all"} # {}
        /\ \A j \in 1..Len(all_buffers) : all_buffers[j].side # "island"

C8_Witness ==
    /\ FewerThanTwo /\ pc = "done"
    /\ temp_buffer.kind = "MultiPolygon" /\ Len(temp_buffer.parts) = 1
    /\ Len(calls) = 1
    /\ output.geoms # <<>>

\* =========================================================================
\* The grid tilers
\* =========================================================================
Tilers == {"restart", "suburb", "chunk"}

\* extents (width, height) in metres of a unit's clipped coastline, chosen
\* around both safety ceilings
Extents == {<<0, 0>>, <<9990, 9990>>, <<10000, 9990>>, <<9990, 99990>>, <<10000, 99990>>}

\* where the GIS engine raises inside process_*: nowhere, before the cell
\* count, in CreateFishnet, in the final Clip, or after the clipped fishnet
\* layer exists
ErrorPoints == {"none", "early", "fishnet", "clip", "late"}

Ceiling(t) ==
    IF t = "restart" THEN CeilingRestart
    ELSE IF t = "suburb" THEN CeilingSuburb
    ELSE CeilingChunk

\* int((extent.XMax - extent.XMin) / cell_size_num) + 1, times the same for Y
Cells(w, h) == ((w \div CellSize) + 1) * ((h \div CellSize) + 1)

\* what one call of process_* did; the extent is read only on the paths that
\* reach the safety check
Result(ret, zero, checked, fishnet, out, w, h) ==
    [ret |-> ret, zero |-> zero, checked |-> checked,
     cells |-> IF checked THEN Cells(w, h) ELSE 0,
     fishnet |-> fishnet, out |-> out,
     w |-> IF checked THEN w ELSE 0, h |-> IF checked THEN h ELSE 0]

\* process_tile with the ceiling test written >=
ProcessTileGe(found, count, w, h, err) ==
    IF err = "early" THEN Result("False", FALSE, FALSE, FALSE, FALSE, w, h)
    ELSE IF ~found THEN Result("False", FALSE, FALSE, FALSE, FALSE, w, h)
    ELSE IF count = 0 THEN Result("False", TRUE, FALSE, FALSE, FALSE, w, h)
    ELSE IF Cells(w, h) >= CeilingRestart THEN Result("False", FALSE, TRUE, FALSE, FALSE, w, h)
    ELSE IF err = "fishnet" THEN Result("False", FALSE, TRUE, TRUE, FALSE, w, h)
    ELSE IF err = "clip" THEN Result("False", FALSE, TRUE, TRUE, FALSE, w, h)
    ELSE IF err = "late" THEN Result("False", FALSE, TRUE, TRUE, TRUE, w, h)
    ELSE Result("True", FALSE, TRUE, TRUE, TRUE, w, h)

\* aus_coast_grid_hierarchical_approach restart functionality.py:86-172
ProcessTile(found, count, w, h, err) ==
    IF err = "early" THEN Result("False", FALSE, FALSE, FALSE, FALSE, w, h)
    ELSE IF ~found THEN Result("False", FALSE, FALSE, FALSE, FALSE, w, h)
    ELSE IF count = 0 THEN Result("False", TRUE, FALSE, FALSE, FALSE, w, h)
    ELSE IF Cells(w, h) > CeilingRestart THEN Result("False", FALSE, TRUE, FALSE, FALSE, w, h)
    ELSE IF err = "fishnet" THEN Result("False", FALSE, TRUE, TRUE, FALSE, w, h)
    ELSE IF err = "clip" THEN Result("False", FALSE, TRUE, TRUE, FALSE, w, h)
    ELSE IF err = "late" THEN Result("False", FALSE, TRUE, TRUE, TRUE, w, h)
    ELSE Result("True", FALSE, TRUE, TRUE, TRUE, w, h)

\* griddedCoastlineFixedLogic.py:29-106 (the clipped fishnet is the last
\* layer created, nothing that can raise after it but the clean-up)
ProcessLga(count, w, h, err) ==
    IF err = "early" THEN Result("failed", FALSE, FALSE, FALSE, FALSE, w, h)
    ELSE IF count = 0 THEN Result("skipped", TRUE, FALSE, FALSE, FALSE, w, h)
    ELSE IF Cells(w, h) > CeilingSuburb THEN Result("failed", FALSE, TRUE, FALSE, FALSE, w, h)
    ELSE IF err = "fishnet" THEN Result("failed", FALSE, TRUE, TRUE, FALSE, w, h)
    ELSE IF err = "clip" THEN Result("failed", FALSE, TRUE, TRUE, FALSE, w, h)
    ELSE IF err = "late" THEN Result("failed", FALSE, TRUE, TRUE, TRUE, w, h)
    ELSE Result("success", FALSE, TRUE, TRUE, TRUE, w, h)

\* griddedCoastlineSeaward.py:91-157
ProcessChunk(w, h, err) ==
    IF err = "early" THEN Result("None", FALSE, FALSE, FALSE, FALSE, w, h)
    ELSE IF Cells(w, h) > CeilingChunk THEN Result("None", FALSE, TRUE, FALSE, FALSE, w, h)
    ELSE IF err = "fishnet" THEN Result("None", FALSE, TRUE, TRUE, FALSE, w, h)
    ELSE IF err = "clip" THEN Result("None", FALSE, TRUE, TRUE, FALSE, w, h)
    ELSE IF err = "late" THEN Result("None", FALSE, TRUE, TRUE, TRUE, w, h)
    ELSE Result("layer", FALSE, TRUE, TRUE, TRUE, w, h)

\* restart tiler main:226-231: if result / elif result is False / else
TallyRestart(ret) ==
    IF ret = "True" THEN "successful"
    ELSE IF ret = "False" THEN "failed"
    ELSE "skipped"

\* griddedCoastlineFixedLogic.py:135-143
TallySuburb(ret) ==
    IF ret = "success" THEN "successful"
    ELSE IF ret = "failed" THEN "failed"
    ELSE IF ret = "skipped" THEN "skipped"
    ELSE "none"

\* griddedCoastlineSeaward.py:191-195
TallyChunk(ret) == IF ret # "None" THEN "successful" ELSE "failed"

\* the tallies with the suburb tiler's "skipped" branch left out
TallyNoSkipped(t, ret) ==
    IF t = "restart" THEN TallyRestart(ret)
    ELSE IF t = "suburb" THEN (IF ret = "skipped" THEN "none" ELSE TallySuburb(ret))
    ELSE TallyChunk(ret)

Tally(t, ret) ==
    IF t = "restart" THEN TallyRestart(ret)
    ELSE IF t = "suburb" THEN TallySuburb(ret)
    ELSE TallyChunk(ret)

\* ------------------------------------------------- create_processing_tiles
tile_size == 5000

\* int(math.ceil(width / tile_size_m)) for a non-negative extent
CeilDivFloor(a, b) == a \div b
CeilDiv(a, b) == (a + b - 1) \div b

\* restart tiler:20-84.  hit is the set of fishnet cells (numbered row by row
\* from 1) that intersect the coastline; err is where the GIS engine raises.
\* The clipped layer gets fresh object ids 1..n, copied into TILE_ID.
create_processing_tiles(width, height, hit, err) ==
    LET cols == CeilDiv(width, tile_size)
        rows == CeilDiv(height, tile_size)
        retained == hit \cap (1..(cols * rows))
        n == Cardinality(retained)
    IN IF err = "describe" THEN NoTiling
       ELSE IF err # "none"
       THEN [NoTiling EXCEPT !.width = width, !.height = height,
                             !.cols = cols, !.rows = rows]
       ELSE [ok |-> TRUE, count |-> n, width |-> width, height |-> height,
             cols |-> cols, rows |-> rows, retained |-> retained,
             tile_ids |-> [k \in 1..n |-> k]]

\* ------------------------------------------------------ output layer names
\* Fishnet_Clipped_Tile_<id> (tail "") or a copy Fishnet_Clipped_Tile_<id>_old
Name(id, tail) == [id |-> id, tail |-> tail]
Canon(id) == Name(id, "")

\* ------------------------------------------------------- clean_filename
\* a suburb name is a sequence of characters
InvalidChars == {"<", ">", ":", "\"", "/", "\\", "|", "?", "*", "(", ")", "[", "]",
                 "{", "}", "-", ",", "."}

\* name.replace(char, '_') for every char of S
ReplaceChars(name, S, c) ==
    [k \in 1..Len(name) |-> IF name[k] \in S THEN c ELSE name[k]]

\* name.replace('__', '_'): the non-overlapping pairs, left to right, once
RECURSIVE ReplacePairs(_)
ReplacePairs(name) ==
    IF Len(name) < 2 THEN name
    ELSE IF name[1] = "_" /\ name[2] = "_"
    THEN <<"_">> \o ReplacePairs(SubSeq(name, 3, Len(name)))
    ELSE <<name[1]>> \o ReplacePairs(Tail(name))

\* name.strip('_')
RECURSIVE LStrip(_)
LStrip(name) ==
    IF name # <<>> /\ Head(name) = "_" THEN LStrip(Tail(name)) ELSE name
RECURSIVE RStrip(_)
RStrip(name) ==
    IF name # <<>> /\ name[Len(name)] = "_" THEN RStrip(SubSeq(name, 1, Len(name) - 1))
    ELSE name
Strip(name) == RStrip(LStrip(name))

\* griddedCoastlineFixedLogic.py:21-27
clean_filename(name) ==
    Strip(ReplacePairs(ReplaceChars(ReplaceChars(name, InvalidChars, "_"), {" "}, "_")))

\* the per-unit output layer: Fishnet_Clipped_<clean_filename(name)> in the
\* suburb tiler (94), Fishnet_Clipped_Tile_<id> / Fishnet_Clipped_Chunk_<id>
\* in the other two
LayerOf(t, id) == IF t = "suburb" THEN Canon(clean_filename(id)) ELSE Canon(id)

\* restart main:209-214: int(fishnet.split("_")[-1]), names whose last
\* segment is not a number are passed over
ProcessedTiles(ls) == {n.id : n \in {m \in ls : m.tail = ""}}

\* restart main:198-202 with the >= written >
TileIdsGt(ids, start) == SelectSeq(ids, LAMBDA t : t > start)
TileIds(ids, start) == SelectSeq(ids, LAMBDA t : t >= start)

\* restart main:219
RemainingTiles(tids, processed) == SelectSeq(tids, LAMBDA t : t \notin processed)

\* ------------------------------------------------------------- final merge
\* the per-unit layers left by the merge step, deleting whatever the merge did
LayersAfterMergeAlways(t, ls, ok, countOk, answer, D) ==
    IF t = "suburb" THEN ls ELSE ls \ D

\* restart main:250-258 (delete on request after Merge returned), suburb
\* main:161-177 (no deletion), chunk main:212-236 (delete after Merge and
\* GetCount returned); D is the set of layers whose Delete call went through
LayersAfterMerge(t, ls, ok, countOk, answer, D) ==
    IF t = "restart" THEN (IF ok /\ answer = "y" THEN ls \ D ELSE ls)
    ELSE IF t = "suburb" THEN ls
    ELSE (IF ok /\ countOk THEN ls \ D ELSE ls)

\* ------------------------------------------------ the environment's choices
MaxCells == 6
start_tile_id_default == 18862
GridLengths == {0, 5000, 7000, 12000}
StartIds == IF tfocus = "units" THEN {1, 2, start_tile_id_default} ELSE {1}
GridExtents ==
    {e \in GridLengths \X GridLengths :
        CeilDiv(e[1], tile_size) * CeilDiv(e[2], tile_size)
            <= (IF tfocus = "units" THEN MaxUnits ELSE MaxCells)}
GridErrors == {"none", "describe", "fishnet", "clip", "late"}
ExistingLayers ==
    IF tfocus = "units"
    THEN SUBSET ({Canon(i) : i \in 1..MaxUnits} \cup {Name(1, "old")})
    ELSE {{}}
UnitExtents == IF tfocus = "units" THEN Extents ELSE {<<9990, 9990>>}
UnitErrors == IF tfocus = "units" THEN ErrorPoints ELSE {"none"}
UnitCounts == IF tfocus = "units" THEN {0, 1} ELSE {1}
UnitFound == IF tfocus = "units" THEN BOOLEAN ELSE {TRUE}

\* suburb names as the SAL_NAME21 field can hold them
SuburbNames == {<<"a", "b">>, <<"a", " ", "b">>, <<"a", "-", "b">>,
                <<"a", ".", " ", "b">>}
DefaultName(k) == [i \in 1..k |-> "a"]
SuburbLists ==
    IF tfocus = "grid" THEN SeqsUpTo(SuburbNames, MaxUnits)
    ELSE {[k \in 1..n |-> DefaultName(k)] : n \in 0..MaxUnits}

\* =========================================================================
\* The tilers' main
\* =========================================================================
BufIdle == InitScript("none") /\ script = "tas" /\ gdf = <<>>

InitMain(f) ==
    /\ tfocus = f
    /\ tiler \in Tilers
    /\ tpc = "start"
    /\ tiling = NoTiling
    /\ start_tile_id \in (IF tiler = "restart" THEN StartIds ELSE {1})
    /\ layers \in (IF tiler = "restart" THEN ExistingLayers ELSE {{}})
    /\ existing_fishnets = {}
    /\ units = <<>>
    /\ done = <<>>
    /\ successful = 0 /\ failed = 0 /\ skipped = 0
    /\ successful_layers = <<>>
    /\ merge = NoMerge

InitTile == BufIdle /\ InitMain("units") /\ RowIdle /\ JoinIdle /\ SiloIdle
InitGrid == BufIdle /\ InitMain("grid") /\ RowIdle /\ JoinIdle /\ SiloIdle

\* restart main:183-187
CreateTiles ==
    /\ tpc = "start" /\ tiler = "restart"
    /\ \E e \in GridExtents, err \in GridErrors :
          \E hit \in SUBSET (1..(CeilDiv(e[1], tile_size) * CeilDiv(e[2], tile_size))) :
             LET t == create_processing_tiles(e[1], e[2], hit, err)
             IN /\ tiling' = t
                /\ tpc' = IF ~t.ok \/ t.count = 0 THEN "exit" ELSE "list"
    /\ UNCHANGED <<bufVars, rowVars, joinVars, siloVars, tfocus, tiler, start_tile_id, existing_fishnets, units, done,
                   successful, failed, skipped, successful_layers, layers, merge>>

\* restart main:197-220: the tiles from start_tile_id on, less those whose
\* output exists
ListTiles ==
    /\ tpc = "list"
    /\ existing_fishnets' = layers
    /\ units' = RemainingTiles(TileIds(tiling.tile_ids, start_tile_id),
                               ProcessedTiles(layers))
    /\ tpc' = "loop"
    /\ UNCHANGED <<bufVars, rowVars, joinVars, siloVars, tfocus, tiler, tiling, start_tile_id, done, successful,
                   failed, skipped, successful_layers, layers, merge>>

\* suburb main:116-123: the non-null suburb names
ListSuburbs ==
    /\ tpc = "start" /\ tiler = "suburb"
    /\ units' \in SuburbLists
    /\ tpc' = "loop"
    /\ UNCHANGED <<bufVars, rowVars, joinVars, siloVars, tfocus, tiler, tiling, start_tile_id, existing_fishnets, done,
                   successful, failed, skipped, successful_layers, layers, merge>>

\* chunk main:168-180: cut_coastline_into_chunks, then the chunk object ids
CutChunks ==
    /\ tpc = "start" /\ tiler = "chunk"
    /\ \E ok \in BOOLEAN, n \in 0..MaxUnits :
          IF ok THEN units' = [k \in 1..n |-> k] /\ tpc' = "loop"
          ELSE units' = <<>> /\ tpc' = "exit"
    /\ UNCHANGED <<bufVars, rowVars, joinVars, siloVars, tfocus, tiler, tiling, start_tile_id, existing_fishnets, done,
                   successful, failed, skipped, successful_layers, layers, merge>>

\* one iteration of the main loop: restart tiler main:222-231, suburb
\* main:131-143, chunk main:187-195
ProcessUnit ==
    /\ tpc = "loop" /\ Len(done) < Len(units)
    /\ LET id == units[Len(done) + 1]
       IN \E found \in UnitFound, count \in UnitCounts, e \in UnitExtents,
             err \in UnitErrors :
             LET r == IF tiler = "restart" THEN ProcessTile(found, count, e[1], e[2], err)
                      ELSE IF tiler = "suburb" THEN ProcessLga(count, e[1], e[2], err)
                      ELSE ProcessChunk(e[1], e[2], err)
                 tl == Tally(tiler, r.ret)
             IN /\ done' = Append(done, r @@ [tally |-> tl, id |-> id,
                                               layer |-> LayerOf(tiler, id)])
                /\ layers' = IF r.out THEN layers \cup {LayerOf(tiler, id)} ELSE layers
                /\ successful' = IF tl = "successful" THEN successful + 1 ELSE successful
                /\ failed' = IF tl = "failed" THEN failed + 1 ELSE failed
                /\ skipped' = IF tl = "skipped" THEN skipped + 1 ELSE skipped
                /\ successful_layers' =
                       IF tiler # "restart" /\ tl = "successful"
                       THEN Append(successful_layers, LayerOf(tiler, id))
                       ELSE successful_layers
    /\ UNCHANGED <<bufVars, rowVars, joinVars, siloVars, tfocus, tiler, tpc, tiling, start_tile_id, existing_fishnets,
                   units, merge>>

\* the summary printed after the loop: restart main:233-238, suburb
\* main:145-150, chunk main:197-201
FinishLoop ==
    /\ tpc = "loop" /\ Len(done) = Len(units)
    /\ tpc' = "complete"
    /\ UNCHANGED <<bufVars, rowVars, joinVars, siloVars, tfocus, tiler, tiling, start_tile_id, existing_fishnets, units,
                   done, successful, failed, skipped, successful_layers, layers,
                   merge>>

\* the layers handed to Merge: restart main:246 lists every layer named
\* Fishnet_Clipped_Tile_*, the other two merge successful_layers
MergeInputs ==
    IF tiler = "restart" THEN layers
    ELSE Range(successful_layers)

MergeGuard ==
    IF tiler = "restart" THEN successful > 0 /\ layers # {}
    ELSE successful > 0 /\ Len(successful_layers) > 0

\* restart main:240-271, suburb main:152-187, chunk main:203-253
MergeStep ==
    /\ tpc = "complete"
    /\ IF MergeGuard
       THEN \E ok \in BOOLEAN, countOk \in BOOLEAN, answer \in {"y", "n"},
               D \in SUBSET MergeInputs :
               /\ merge' = [attempted |-> TRUE, ok |-> ok, inputs |-> MergeInputs,
                            before |-> layers]
               /\ layers' = LayersAfterMerge(tiler, layers, ok, countOk, answer, D)
       ELSE UNCHANGED <<merge, layers>>
    /\ tpc' = "finished"
    /\ UNCHANGED <<bufVars, rowVars, joinVars, siloVars, tfocus, tiler, tiling, start_tile_id, existing_fishnets, units,
                   done, successful, failed, skipped, successful_layers>>

NextTile ==
    \/ CreateTiles
    \/ ListTiles
    \/ ListSuburbs
    \/ CutChunks
    \/ ProcessUnit
    \/ FinishLoop
    \/ MergeStep

SpecTile == InitTile /\ [][NextTile]_vars
SpecGrid == InitGrid /\ [][NextTile]_vars

\* =========================================================================
\* Properties of the grid tilers
\* =========================================================================
Count(tl) == Cardinality({u \in 1..Len(done) : done[u].tally = tl})

\* C9: a unit whose clipped coastline has zero features produces no output
\* and is counted as skipped, not as failed.
C9_ZeroFeaturesSkipped ==
    /\ \A u \in 1..Len(done) :
          done[u].zero => (done[u].tally = "skipped" /\ ~done[u].out)
    /\ skipped = Count("skipped")
    /\ failed = Count("failed")

\* C10: a unit that reaches the safety check calls the fishnet generator iff
\* (floor(w/cell)+1)*(floor(h/cell)+1) is at most the tiler's ceiling; above
\* the ceiling no fishnet call is made, no output layer appears and the unit
\* is not counted successful; exactly at the ceiling the unit is processed.
C10_CeilingSkip ==
    \A u \in 1..Len(done) :
        LET d == done[u]
            cells == ((d.w \div 10) + 1) * ((d.h \div 10) + 1)
            limit == IF tiler = "restart" THEN 1000000 ELSE 10000000
        IN d.checked =>
              /\ d.cells = cells
              /\ d.fishnet <=> (cells <= limit)
              /\ (cells > limit) =>
                     (~d.out /\ d.layer \notin layers /\ d.tally # "successful")
              /\ (cells = limit /\ d.ret \in {"True", "success", "layer"}) =>
                     /\ d.tally = "successful"
                     /\ ~merge.attempted => d.layer \in layers

C10_Witness ==
    /\ tpc = "complete" /\ tiler = "restart" /\ Len(done) = 2
    /\ done[1].checked /\ done[1].cells = 1001000 /\ ~done[1].fishnet
    /\ done[2].checked /\ done[2].cells = 1000000 /\ done[2].fishnet
    /\ layers = {Canon(2)} /\ successful = 1

\* C11: the tiles handed to process_tile are, in layer order and once each,
\* exactly the tiles whose identifier is at least start_tile_id and for which
\* no layer named Fishnet_Clipped_Tile_<id> was found before the loop; no
\* other tile is processed, and with start_tile_id above every identifier
\* nothing is processed.
C11_ResumeTileSet ==
    (tiler = "restart" /\ tpc \in {"loop", "complete", "finished"}) =>
        LET all == tiling.tile_ids
            want == {all[k] : k \in 1..Len(all)} \ {t \in 1..MaxCells : t < start_tile_id}
            have == {t \in 1..MaxCells : [id |-> t, tail |-> ""] \in existing_fishnets}
        IN /\ {units[k] : k \in 1..Len(units)} = want \ have
           /\ \A a, b \in 1..Len(units) : a < b => units[a] < units[b]
           /\ Len(done) <= Len(units)
           /\ \A u \in 1..Len(done) : done[u].id = units[u]
           /\ tpc # "loop" => Len(done) = Len(units)
           /\ (\A k \in 1..Len(all) : all[k] < start_tile_id) => (units = <<>> /\ done = <<>>)
           /\ \A u \in 1..Len(done) : done[u].out => Canon(done[u].id) \notin existing_fishnets

C11_Witness ==
    /\ tiler = "restart" /\ tpc = "finished"
    /\ start_tile_id = 2 /\ tiling.tile_ids = <<1, 2, 3>>
    /\ existing_fishnets = {Canon(1), Canon(3), Name(1, "old")}
    /\ units = <<2>> /\ Len(done) = 1 /\ done[1].out

C12_Kept ==
    (merge.attempted /\ ~merge.ok) =>
        /\ merge.before # {}
        /\ layers = merge.before
        /\ merge.inputs \subseteq layers

C12_DeleteOnlyAfterMerge ==
    (\E n \in layers : n \notin layers') =>
        /\ tpc = "complete"
        /\ merge'.attempted /\ merge'.ok
        /\ layers' \subseteq layers

\* C12: in every tiler a merge that failed leaves every per-unit output layer
\* that existed before the attempt in place, and a per-unit layer disappears
\* only in a merge step whose Merge call succeeded.
C12_MergeFailureKeepsLayers == [](C12_Kept) /\ [][C12_DeleteOnlyAfterMerge]_vars

C12_Witness ==
    /\ tpc = "finished" /\ tiler = "chunk"
    /\ merge.attempted /\ ~merge.ok
    /\ Cardinality(merge.inputs) = 2 /\ layers = merge.before
    /\ Cardinality(layers) = 3

IsCeil(q, a, b) == q * b >= a /\ (q - 1) * b < a

\* C13: the tile grid has ceil(width / tile size) columns and ceil(height /
\* tile size) rows (3 by 2 for 12 km by 7 km with 5 km tiles); the retained
\* tiles are cells of that grid, each gets one identifier, and the returned
\* count is the number of retained tiles.
C13_CeilingTileGrid ==
    (tiler = "restart" /\ tiling.ok) =>
        /\ IsCeil(tiling.cols, tiling.width, 5000)
        /\ IsCeil(tiling.rows, tiling.height, 5000)
        /\ (tiling.width = 12000 /\ tiling.height = 7000) =>
               (tiling.cols = 3 /\ tiling.rows = 2)
        /\ tiling.retained \subseteq 1..(tiling.cols * tiling.rows)
        /\ tiling.count = Cardinality(tiling.retained)
        /\ Len(tiling.tile_ids) = tiling.count
        /\ \A a, b \in 1..Len(tiling.tile_ids) :
               a # b => tiling.tile_ids[a] # tiling.tile_ids[b]
        /\ \A u \in 1..Len(units) :
               \E a \in 1..Len(tiling.tile_ids) : units[u] = tiling.tile_ids[a]

C13_Witness ==
    /\ tiler = "restart" /\ tpc = "finished" /\ tiling.ok
    /\ tiling.width = 12000 /\ tiling.height = 7000
    /\ tiling.cols = 3 /\ tiling.rows = 2
    /\ tiling.retained = {1, 2, 4, 6} /\ tiling.count = 4
    /\ Len(done) = 4

\* =========================================================================
\* The point-retrieval loops (SILOstations.py)
\* =========================================================================
\* The grid axes of the wave hindcast, in whole units: latitude and
\* longitude are one-dimensional, ascending coordinate arrays.
GridLat == <<0, 2, 4>>
GridLon == <<10, 12, 14, 16>>

\* the value stored at grid cell (i, j)
Hs(i, j) == 100 * i + j

AbsDiff(a, b) == IF a < b THEN b - a ELSE a - b
AxisMin(axis) == CHOOSE m \in Range(axis) : \A x \in Range(axis) : m <= x
AxisMax(axis) == CHOOSE m \in Range(axis) : \A x \in Range(axis) : m >= x

\* the minimum-difference scan taking the last of several minima
ArgMinLast(axis, x) ==
    CHOOSE i \in 1..Len(axis) :
        /\ \A k \in 1..Len(axis) : AbsDiff(axis[i], x) <= AbsDiff(axis[k], x)
        /\ \A k \in (i + 1)..Len(axis) : AbsDiff(axis[k], x) > AbsDiff(axis[i], x)

\* np.argmin(abs(axis - x)): the first index of the minimum (2154-2157)
ArgMin(axis, x) ==
    CHOOSE i \in 1..Len(axis) :
        /\ \A k \in 1..Len(axis) : AbsDiff(axis[i], x) <= AbsDiff(axis[k], x)
        /\ \A k \in 1..(i - 1) : AbsDiff(axis[k], x) > AbsDiff(axis[i], x)

\* ds.sel(..., method="nearest") on one axis: the nearest label, for any
\* request (a request beyond the axis gets the edge label); the index
\* lookup breaks ties towards the larger index
SelNearest(axis, x) ==
    CHOOSE i \in 1..Len(axis) :
        /\ \A k \in 1..Len(axis) : AbsDiff(axis[i], x) <= AbsDiff(axis[k], x)
        /\ \A k \in (i + 1)..Len(axis) : AbsDiff(axis[k], x) > AbsDiff(axis[i], x)

\* 2148-2149: lat < min or lat > max or lon < min or lon > max
OutOfBounds(lat, lon) ==
    \/ lat < AxisMin(GridLat) \/ lat > AxisMax(GridLat)
    \/ lon < AxisMin(GridLon) \/ lon > AxisMax(GridLon)

\* one record of a result table
Rec(row, kind, source, lat, lon, cell) ==
    [row |-> row, kind |-> kind, source |-> source, lat |-> lat, lon |-> lon,
     cell |-> cell,
     used_lat |-> IF cell = <<0, 0>> THEN 0 ELSE GridLat[cell[1]],
     used_lon |-> IF cell = <<0, 0>> THEN 0 ELSE GridLon[cell[2]],
     hs |-> IF cell = <<0, 0>> THEN 0 ELSE Hs(cell[1], cell[2])]

None(why) == [some |-> FALSE, why |-> why, cell |-> <<0, 0>>]
Some(cell) == [some |-> TRUE, why |-> "data", cell |-> cell]

\* get_wave_data (2136-2194).  bad: float() or pd.to_datetime raises;
\* fetch: what the selection on the remote dataset does.
get_wave_data(lat, lon, bad, fetch) ==
    IF bad THEN None("error")
    ELSE IF OutOfBounds(lat, lon) THEN None("out_of_bounds")
    ELSE LET nearest_lat == GridLat[ArgMin(GridLat, lat)]
             nearest_lon == GridLon[ArgMin(GridLon, lon)]
         IN IF fetch = "throw" THEN None("error")
            ELSE IF fetch = "nan" THEN None("no_valid_data")
            ELSE Some(<<SelNearest(GridLat, nearest_lat),
                        SelNearest(GridLon, nearest_lon)>>)

\* ------------------------------------------------------------- batching
\* batch_size is 10 in the wave extraction (1477) and 100 in the ERA5 loop
\* (496); the model runs the same loops with a small batch size
batch_size == 2
MaxRows == 3

Min(a, b) == IF a < b THEN a ELSE b

\* every batch written to the same file
BatchFileOne(i) == 1
\* 1529: wave_data_batch_{i//batch_size + 1}.csv, i the 0-based start row
BatchFile(i) == (i \div batch_size) + 1

\* 1481-1483: the rows of the batch that starts at 0-based row i
BatchEnd(i, n) == Min(i + batch_size, n)

\* ------------------------------------------------ the environment's choices
Loops == {"wave_main", "era5", "weather", "cawcr", "sample", "features_clean",
          "features_2024"}
Features == {"features_clean", "features_2024"}
Batched == {"wave_main", "era5"}
Coords == {<<1, 11>>, <<3, 12>>, <<1, 15>>, <<-1, 12>>, <<3, 17>>, <<4, 10>>}
Fetches(l) ==
    IF l = "weather" THEN {"ok", "status", "throw"}
    ELSE IF l = "sample" THEN {"ok", "throw", "nan"}
    ELSE {"ok", "throw"}
RowCoords(l) == IF l \in {"cawcr", "sample"} THEN Coords ELSE {<<3, 12>>}
BadValues(l) == IF l \in {"era5", "weather"} THEN {FALSE} ELSE BOOLEAN

InitRows ==
    /\ BufIdle /\ TileIdle /\ JoinIdle /\ SiloIdle
    /\ retr \in Loops
    /\ nrows \in 0..MaxRows
    /\ rpc = "rows" /\ cursor = 0
    /\ outcomes = <<>> /\ batch_results = <<>> /\ results = <<>>
    /\ files = <<>> /\ trace = <<>>

Outcome_(lat, lon, bad, fetch) == [lat |-> lat, lon |-> lon, bad |-> bad, fetch |-> fetch]

\* the 0-based start row of the batch in progress
BatchStart == Len(files) * batch_size

\* wave extraction main:1487-1522, one row of the batch.  get_bom_wave_data
\* and get_imos_wave_buoy_data sleep after every (placeholder) call.
RowWave ==
    /\ retr = "wave_main" /\ rpc = "rows"
    /\ cursor < BatchEnd(BatchStart, nrows)
    /\ LET i == cursor + 1
       IN \E bad \in BadValues(retr), bom \in {"ok", "error"}, imos \in {"ok", "error"} :
             /\ batch_results' = Append(batch_results,
                    IF bad THEN Rec(i, "error", "Processing Error", 3, 12, <<0, 0>>)
                    ELSE IF bom = "ok" THEN Rec(i, "data", "AODN/BOM", 3, 12, <<0, 0>>)
                    ELSE IF imos = "ok" THEN Rec(i, "data", "IMOS", 3, 12, <<0, 0>>)
                    ELSE Rec(i, "error", "IMOS", 3, 12, <<0, 0>>))
             /\ outcomes' = Append(outcomes, Outcome_(3, 12, bad,
                    IF bad \/ bom = "ok" \/ imos = "ok" THEN "ok" ELSE "throw"))
             /\ trace' = trace \o (IF bad THEN <<>>
                                   ELSE IF bom = "ok" THEN <<"call", "sleep">>
                                   ELSE <<"call", "sleep", "call", "sleep">>)
    /\ cursor' = cursor + 1
    /\ UNCHANGED <<bufVars, tileVars, joinVars, siloVars, retr, rpc, nrows, results, files>>

\* ERA5 batch loop:549-579, one point of the batch; nothing is guarded
RowEra5 ==
    /\ retr = "era5" /\ rpc = "rows"
    /\ cursor < BatchEnd(BatchStart, nrows)
    /\ \E fetch \in Fetches(retr) :
          /\ outcomes' = Append(outcomes, Outcome_(3, 12, FALSE, fetch))
          /\ IF fetch = "ok"
             THEN /\ batch_results' = Append(batch_results,
                         Rec(cursor + 1, "data", "ERA5", 3, 12, <<0, 0>>))
                  /\ UNCHANGED rpc
             ELSE rpc' = "crashed" /\ UNCHANGED batch_results
    /\ cursor' = cursor + 1
    /\ UNCHANGED <<bufVars, tileVars, joinVars, siloVars, retr, nrows, results, files, trace>>

\* wave extraction main:1524-1536, ERA5 batch loop:581-587: write the batch
\* to its own file; the write may fail
SaveBatch ==
    /\ retr \in Batched /\ rpc = "rows"
    /\ BatchStart < nrows /\ cursor = BatchEnd(BatchStart, nrows)
    /\ \E ok \in BOOLEAN :
          IF ok
          THEN /\ files' = Append(files, [batch |-> BatchFile(BatchStart),
                                          recs |-> batch_results])
               /\ results' = IF retr = "wave_main" THEN results \o batch_results
                             ELSE results
               /\ batch_results' = <<>>
               /\ trace' = IF retr = "wave_main" /\ cursor < nrows
                           THEN Append(trace, "sleep") ELSE trace
               /\ UNCHANGED rpc
          ELSE /\ rpc' = "crashed"
               /\ UNCHANGED <<files, results, batch_results, trace>>
    /\ UNCHANGED <<bufVars, tileVars, joinVars, siloVars, retr, nrows, cursor, outcomes>>

\* the process is terminated while a batched loop runs
Crash ==
    /\ retr \in Batched /\ rpc = "rows"
    /\ rpc' = "crashed"
    /\ UNCHANGED <<bufVars, tileVars, joinVars, siloVars, retr, nrows, cursor, outcomes, batch_results,
                   results, files, trace>>

\* get_historical_weather_from_dataframe:1613-1685, one location/date
RowWeather ==
    /\ retr = "weather" /\ rpc = "rows" /\ cursor < nrows
    /\ \E fetch \in Fetches(retr) :
          /\ outcomes' = Append(outcomes, Outcome_(3, 12, FALSE, fetch))
          /\ IF fetch = "ok"
             THEN /\ results' = Append(results,
                         Rec(cursor + 1, "data", "Open-Meteo", 3, 12, <<0, 0>>))
                  /\ trace' = trace \o <<"call", "sleep">>
             ELSE /\ UNCHANGED results
                  /\ trace' = Append(trace, "call")
    /\ cursor' = cursor + 1
    /\ UNCHANGED <<bufVars, tileVars, joinVars, siloVars, retr, rpc, nrows, batch_results, files>>

\* CAWCR per-row loop:2330-2360 (and its copy 2045-2075); the conversions of
\* the row's values stand before the try
RowCawcr ==
    /\ retr = "cawcr" /\ rpc = "rows" /\ cursor < nrows
    /\ \E c \in RowCoords(retr), bad \in BadValues(retr), fetch \in Fetches(retr) :
          /\ outcomes' = Append(outcomes, Outcome_(c[1], c[2], bad, fetch))
          /\ IF bad
             THEN rpc' = "aborted" /\ UNCHANGED <<results, trace>>
             ELSE /\ results' = Append(results,
                         IF fetch = "ok"
                         THEN Rec(cursor + 1, "data", "CSIRO CAWCR Hindcast", c[1], c[2],
                                  <<SelNearest(GridLat, c[1]), SelNearest(GridLon, c[2])>>)
                         ELSE Rec(cursor + 1, "error", "", c[1], c[2], <<0, 0>>))
                  /\ trace' = trace \o <<"call", "sleep">>
                  /\ UNCHANGED rpc
    /\ cursor' = cursor + 1
    /\ UNCHANGED <<bufVars, tileVars, joinVars, siloVars, retr, nrows, batch_results, files>>

\* sample loop:2255-2270 over get_wave_data; a row without a result is only
\* printed
RowSample ==
    /\ retr = "sample" /\ rpc = "rows" /\ cursor < nrows
    /\ \E c \in RowCoords(retr), bad \in BadValues(retr), fetch \in Fetches(retr) :
          LET r == get_wave_data(c[1], c[2], bad, fetch)
          IN /\ outcomes' = Append(outcomes, Outcome_(c[1], c[2], bad, fetch))
             /\ results' = IF r.some
                           THEN Append(results, Rec(cursor + 1, "data", "get_wave_data",
                                                    c[1], c[2], r.cell))
                           ELSE results
             /\ trace' = IF bad \/ OutOfBounds(c[1], c[2]) THEN trace
                         ELSE Append(trace, "call")
    /\ cursor' = cursor + 1
    /\ UNCHANGED <<bufVars, tileVars, joinVars, siloVars, retr, rpc, nrows, batch_results, files>>

\* a raw cell of the latitude / longitude column: a number, a numeric text,
\* some other text ("Unknown"), or nothing
RawLat == {[kind |-> "num", v |-> 3], [kind |-> "numtext", v |-> 1],
           [kind |-> "text", v |-> 0], [kind |-> "missing", v |-> 0]}
RawLon == {[kind |-> "num", v |-> 12], [kind |-> "missing", v |-> 0]}

\* pd.to_numeric(x, errors="coerce"): the number, or NaN for anything that
\* is not one (102-103, 1055-1056)
to_numeric(x) ==
    IF x.kind \in {"num", "numtext"} THEN [nan |-> FALSE, v |-> x.v]
    ELSE [nan |-> TRUE, v |-> 0]

\* create_single_feature_class: the loop body of the clean map script
\* (127-154) is inside try/except, the one of the 2024-25 script (1054-1063)
\* is not
InsertGuarded(f) == f = "features_clean"

\* create_single_feature_class:125-154 and 1054-1063, one row of the table
RowFeature ==
    /\ retr \in Features /\ rpc = "rows" /\ cursor < nrows
    /\ \E la \in RawLat, lo \in RawLon, ins \in {"ok", "throw"} :
          LET lat == to_numeric(la)
              lon == to_numeric(lo)
              invalid == lat.nan \/ lon.nan
          IN /\ outcomes' = Append(outcomes,
                    Outcome_(la, lo, invalid, IF invalid THEN "none" ELSE ins))
             /\ IF invalid THEN UNCHANGED <<results, rpc>>
                ELSE IF ins = "ok"
                THEN /\ results' = Append(results,
                            Rec(cursor + 1, "feature", "InsertCursor", lat.v, lon.v,
                                <<0, 0>>))
                     /\ UNCHANGED rpc
                ELSE IF InsertGuarded(retr) THEN UNCHANGED <<results, rpc>>
                ELSE rpc' = "aborted" /\ UNCHANGED results
    /\ cursor' = cursor + 1
    /\ UNCHANGED <<bufVars, tileVars, joinVars, siloVars, retr, nrows, batch_results,
                   files, trace>>

\* after the loop: 1538-1541, 589, 1687-1693, 2362-2364, 2272-2276
FinishRows ==
    /\ rpc = "rows"
    /\ IF retr \in Batched THEN BatchStart >= nrows ELSE cursor = nrows
    /\ rpc' = "done"
    /\ UNCHANGED <<bufVars, tileVars, joinVars, siloVars, retr, nrows, cursor, outcomes, batch_results,
                   results, files, trace>>

NextRows ==
    \/ RowWave
    \/ RowEra5
    \/ SaveBatch
    \/ Crash
    \/ RowWeather
    \/ RowCawcr
    \/ RowSample
    \/ RowFeature
    \/ FinishRows

SpecRows == InitRows /\ [][NextRows]_vars

\* =========================================================================
\* Properties of the point-retrieval loops
\* =========================================================================
Collected == results \o batch_results

\* C14: no data record is returned for a request whose latitude or longitude
\* lies outside the grid, neither by get_wave_data nor by the per-row loop.
C14_OutOfBoundsReported ==
    retr \in {"cawcr", "sample"} =>
        \A k \in 1..Len(results) :
            (\/ results[k].lat < 0 \/ results[k].lat > 4
             \/ results[k].lon < 10 \/ results[k].lon > 16) => results[k].kind # "data"

RowsOf(recs) == {recs[j].row : j \in 1..Len(recs)}

\* C15: the k-th file written holds batch k, complete and only it; no row of
\* a later batch is consumed before the file of the batch before it is
\* written; so at a crash every completed batch is on disk and the rows
\* consumed but not on disk belong to the one batch in progress.
C15_BatchCheckpoint ==
    retr \in {"wave_main", "era5"} =>
        LET bs == batch_size
            saved == Len(files)
        IN /\ \A k \in 1..saved :
                 /\ files[k].batch = k
                 /\ RowsOf(files[k].recs) = ((k - 1) * bs + 1)..Min(k * bs, nrows)
           /\ cursor <= Min((saved + 1) * bs, nrows)
           /\ RowsOf(batch_results) \subseteq (saved * bs + 1)..cursor
           /\ rpc = "crashed" => cursor - saved * bs <= bs
           /\ rpc = "done" => (saved * bs >= nrows /\ batch_results = <<>>)

C15_Witness ==
    /\ retr = "era5" /\ rpc = "crashed" /\ nrows = 3
    /\ Len(files) = 1 /\ RowsOf(files[1].recs) = {1, 2}
    /\ cursor = 3 /\ outcomes[3].fetch = "throw"

Failed(o) == o.bad \/ o.fetch # "ok"

\* C16: a row whose retrieval failed has exactly one record with an error
\* marker among the results, and the loop is not aborted.
C16_FailedRowRecorded ==
    retr \in {"wave_main", "cawcr", "weather"} =>
        /\ rpc # "aborted"
        /\ \A i \in 1..Len(outcomes) :
              Failed(outcomes[i]) =>
                  Cardinality({k \in 1..Len(Collected) :
                      Collected[k].row = i /\ Collected[k].kind = "error"}) = 1

\* C17: every external call but the last is followed by a sleep before the
\* next call.
C17_DelayBetweenCalls ==
    \A k \in 1..(Len(trace) - 1) : trace[k] = "call" => trace[k + 1] = "sleep"

FirstNearest(axis, i, x) ==
    /\ i \in 1..Len(axis)
    /\ \A k \in 1..Len(axis) : AbsDiff(axis[i], x) <= AbsDiff(axis[k], x)
    /\ \A k \in 1..(i - 1) : AbsDiff(axis[k], x) > AbsDiff(axis[i], x)

\* C18: get_wave_data picks, on each axis by itself, the first grid value of
\* minimal absolute difference to the request, and returns the value stored
\* at that cell.
C18_NearestCell ==
    retr = "sample" =>
        \A k \in 1..Len(results) :
            LET r == results[k]
            IN /\ FirstNearest(<<0, 2, 4>>, r.cell[1], r.lat)
               /\ FirstNearest(<<10, 12, 14, 16>>, r.cell[2], r.lon)
               /\ r.used_lat = <<0, 2, 4>>[r.cell[1]]
               /\ r.used_lon = <<10, 12, 14, 16>>[r.cell[2]]
               /\ r.hs = 100 * r.cell[1] + r.cell[2]

C18_Witness ==
    /\ retr = "sample" /\ rpc = "done" /\ Len(results) = 2
    /\ results[1].lat = 1 /\ results[1].lon = 15 /\ results[1].cell = <<1, 3>>
    /\ results[1].hs = 103
    /\ results[2].lat = 4 /\ results[2].lon = 10 /\ results[2].cell = <<3, 1>>

\* =========================================================================
\* Properties of the coastline buffer scripts: aborts and the output step
\* =========================================================================
\* C19: a run of a buffer script is aborted only when the initial unified
\* buffer cannot be built; every other error is skipped or recorded and the
\* run reaches its output step.
C19_FatalOnlyInitialUnion ==
    pc = "aborted" => log = {"aborting_due_to_union_failure"}

C20_State ==
    /\ output.written =>
          /\ pc = "done"
          /\ output.geoms = Final
          /\ output.crs = crs
          /\ \A a, b \in 1..Len(output.files) : a # b => output.files[a] # output.files[b]
    /\ pc # "done" => output = [written |-> FALSE, geoms |-> <<>>, crs |-> "", files |-> <<>>]

C20_Step ==
    output' # output => (pc = "write" /\ pc' = "done" /\ ~output.written /\ output'.written)

\* C20: the output layer is written in one step, the last one, from the
\* final geometry list and with the input layer's coordinate reference
\* system; before that step, and in every aborted run, nothing is written.
C20_WriteOnceAtEnd == [](C20_State) /\ [][C20_Step]_vars

C20_Witness ==
    /\ pc = "done" /\ script = "combined" /\ crs = "EPSG:4326"
    /\ output.written /\ output.crs = "EPSG:4326" /\ output.geoms # <<>>
    /\ output.files = <<"shp", "geojson">>
    /\ Len(flattened) = 2 /\ Len(valid_geoms) = 1

\* =========================================================================
\* Combining layers: coordinate reference systems
\* (coastline_coastalfeatures_combined.py STEP 7, the map scripts of
\* SILOstations.py)
\* =========================================================================
MaxFiles == 2      \* shapefiles found in the reference folder

\* reference systems a layer can carry when it is read; "None" is a layer
\* without one
LayerCRSs == {"EPSG:3577", "EPSG:4326", "EPSG:7844", "None"}
Jobs == {"water", "sjoin", "reproject"}

Same(c) == [raised |-> FALSE, crs |-> c]

\* GeoDataFrame.to_crs(target): raises on a layer without a reference system
ToCrs(c, target) ==
    IF c = "None" THEN [raised |-> TRUE, crs |-> c]
    ELSE [raised |-> FALSE, crs |-> target]

\* combined:172-174: if water_gdf.crs != gdf.crs: water_gdf.to_crs(gdf.crs)
AlignWater(w, g) == IF w # g THEN ToCrs(w, g) ELSE Same(w)

\* reproject_shapefile (761-786, copies at 156, 1065, 1794)
reproject_shapefile(c) ==
    IF c = "None" \/ c # "EPSG:4326" THEN ToCrs(c, "EPSG:4326") ELSE Same(c)

Op(o, l, r) == [op |-> o, left |-> l, right |-> r]

InitJoin ==
    /\ BufIdle /\ TileIdle /\ RowIdle /\ SiloIdle
    /\ job \in Jobs
    /\ jpc = "start"
    /\ base_crs \in (IF job = "water" THEN CRSs ELSE {"EPSG:4326"})
    /\ other_crs \in (IF job = "water" THEN [1..1 -> LayerCRSs]
                      ELSE IF job = "sjoin" THEN [1..2 -> LayerCRSs]
                      ELSE SeqsUpTo(LayerCRSs, MaxFiles))
    /\ ops = <<>>

\* combined:166-218: read the water bodies, align their reference system,
\* union them with the coastal buffer; any exception skips the merge
WaterStep ==
    /\ job = "water" /\ jpc = "start"
    /\ \E read \in {"ok", "raise"}, union \in {"ok", "raise"} :
          LET a == AlignWater(other_crs[1], base_crs)
          IN ops' = IF read = "raise" \/ a.raised \/ union = "raise" THEN ops
                    ELSE Append(ops, Op("union", base_crs, a.crs))
    /\ jpc' = "done"
    /\ UNCHANGED <<bufVars, tileVars, rowVars, siloVars, job, base_crs, other_crs>>

\* map script main:882-893: the incident points, built with EPSG:4326, are
\* joined to the LGA boundaries as read
SjoinLga ==
    /\ job = "sjoin" /\ jpc = "start"
    /\ ops' = Append(ops, Op("sjoin", base_crs, other_crs[1]))
    /\ jpc' = "lga_joined"
    /\ UNCHANGED <<bufVars, tileVars, rowVars, siloVars, job, base_crs, other_crs>>

\* map script main:895-896: then to the suburb boundaries as read
SjoinSuburb ==
    /\ job = "sjoin" /\ jpc = "lga_joined"
    /\ ops' = Append(ops, Op("sjoin", base_crs, other_crs[2]))
    /\ jpc' = "done"
    /\ UNCHANGED <<bufVars, tileVars, rowVars, siloVars, job, base_crs, other_crs>>

\* map script main:332-348: one shapefile of the reference folder is
\* reprojected (outside any try) and added to the map over the points
ReprojectFile ==
    /\ job = "reproject" /\ jpc = "start" /\ Len(ops) < Len(other_crs)
    /\ LET r == reproject_shapefile(other_crs[Len(ops) + 1])
       IN IF r.raised
          THEN jpc' = "aborted" /\ UNCHANGED ops
          ELSE /\ ops' = Append(ops, Op("add_to_map", base_crs, r.crs))
               /\ UNCHANGED jpc
    /\ UNCHANGED <<bufVars, tileVars, rowVars, siloVars, job, base_crs, other_crs>>

\* map script main:350: the folder is exhausted
FinishFiles ==
    /\ job = "reproject" /\ jpc = "start" /\ Len(ops) = Len(other_crs)
    /\ jpc' = "done"
    /\ UNCHANGED <<bufVars, tileVars, rowVars, siloVars, job, base_crs, other_crs, ops>>

NextJoin ==
    \/ WaterStep
    \/ SjoinLga
    \/ SjoinSuburb
    \/ ReprojectFile
    \/ FinishFiles

SpecJoin == InitJoin /\ [][NextJoin]_vars

\* C21: whenever two layers are unioned or spatially joined they carry the
\* same coordinate reference system at that moment.
C21_SameCrsWhenCombined ==
    \A k \in 1..Len(ops) :
        ops[k].op \in {"union", "sjoin"} => ops[k].left = ops[k].right

\* =========================================================================
\* Properties of the incident point layer (create_single_feature_class)
\* =========================================================================
InvalidRows == {i \in 1..Len(outcomes) : outcomes[i].bad}
FeaturesOf(i) == {k \in 1..Len(results) : results[k].row = i}

\* C22: a row whose latitude or longitude is missing or not numeric gets no
\* feature, every other row gets exactly one, the run is not aborted, and at
\* the end inserted features plus skipped rows equals the input rows.
C22_InvalidCoordinateSkipped ==
    retr \in {"features_clean", "features_2024"} =>
        /\ rpc # "aborted"
        /\ \A i \in InvalidRows : FeaturesOf(i) = {}
        /\ \A i \in (1..Len(outcomes)) \ InvalidRows : Cardinality(FeaturesOf(i)) = 1
        /\ rpc = "done" => Len(results) + Cardinality(InvalidRows) = nrows

\* =========================================================================
\* Properties of the length-classifying scripts: the number of buffers
\* =========================================================================
Buffered == script \in LengthScripts /\ pc \in {"union", "flatten", "write", "done"}

RECURSIVE SumParts(_)
SumParts(S) ==
    IF S = {} THEN 0
    ELSE LET i == CHOOSE x \in S : TRUE IN nparts[i] + SumParts(S \ {i})

BuffersOf(sd, i) ==
    Cardinality({j \in 1..Len(all_buffers) :
                    all_buffers[j].side = sd /\ all_buffers[j].of = i})

TheScenario == gdf = <<300000, 50000, 10000>> /\ nparts = <<1, 1, 1>>

C23_Scenario ==
    (Buffered /\ TheScenario) =>
        /\ main_coast = {1} /\ islands = {2, 3}
        /\ BuffersOf("landward", 1) = 1 /\ BuffersOf("oceanward", 1) = 1
        /\ BuffersOf("island", 2) = 1 /\ BuffersOf("island", 3) = 1
        /\ Len(all_buffers) = 4
        /\ pc \in {"write", "done"} => Len(flattened) \in 1..3

\* C23 as stated: in both scripts the number of buffers handed to the union
\* is twice the number of mainland input lines plus the number of island
\* lines.
C23_TwoPerMainlandLine ==
    /\ C23_Scenario
    /\ Buffered =>
          Len(all_buffers) = 2 * Cardinality(main_coast) + Cardinality(islands)

\* C23, amended: in the scenario (300 km, 50 km, 10 km) there are 1 mainland
\* and 2 islands, one landward and one seaward buffer for the mainland, one
\* buffer per island, and 1 to 3 flattened geometries.  In general aus coast
\* polygon.py hands the union two buffers per LineString the mainland
\* features are made of plus one per island; coastline_closedloops.py unions
\* the mainland lines first and hands over at most one landward and one
\* seaward buffer, plus at most one per island.
C23_BuffersPerLine ==
    /\ C23_Scenario
    /\ (Buffered /\ script = "polygon") =>
          /\ Len(all_buffers) = 2 * SumParts(main_coast) + Cardinality(islands)
          /\ \A i \in main_coast :
                BuffersOf("landward", i) = nparts[i] /\ BuffersOf("oceanward", i) = nparts[i]
          /\ \A i \in islands : BuffersOf("island", i) = 1
    /\ (Buffered /\ script = "closedloops") =>
          /\ Len(all_buffers) <= 2 + Cardinality(islands)
          /\ BuffersOf("landward", 1) <= 1 /\ BuffersOf("oceanward", 1) <= 1
          /\ \A i \in islands : BuffersOf("island", i) <= 1
          /\ main_coast # {} =>
                Len(all_buffers) = 2 + Cardinality(islands)

C23_Witness ==
    /\ script = "polygon" /\ pc = "done" /\ TheScenario
    /\ main_coast = {1} /\ islands = {2, 3}
    /\ Len(all_buffers) = 4 /\ Len(output.geoms) = 1

\* =========================================================================
\* Properties of the restartable tiler: resume and merge
\* =========================================================================
\* C24: a tile whose process_tile call returned False leaves no layer named
\* Fishnet_Clipped_Tile_<id> behind, so a later run does not count it among
\* the processed tiles.
C24_FailedTileLeavesNoLayer ==
    tiler = "restart" =>
        \A u \in 1..Len(done) :
            done[u].ret = "False" =>
                /\ ~done[u].out
                /\ ~merge.attempted => done[u].id \notin ProcessedTiles(layers)

\* C25: a completed run of the restartable tiler with per-tile outputs in the
\* workspace executes the merge, also when no tile was newly processed, and
\* the merge takes every layer named Fishnet_Clipped_Tile_* present, from
\* this run and from earlier ones.
C25_MergeWheneverOutputsExist ==
    (tiler = "restart" /\ tpc = "finished") =>
        /\ ~merge.attempted => layers = {}
        /\ merge.attempted =>
              /\ merge.inputs = merge.before
              /\ existing_fishnets \subseteq merge.inputs

\* =========================================================================
\* Properties of the suburb tiler: layer names
\* =========================================================================
SucceededUnits == {u \in 1..Len(done) : done[u].ret = "success"}

\* C26: two different suburb names that are both processed successfully have
\* different output layers, and the list handed to the merge holds each
\* produced layer exactly once.
C26_DistinctSuburbLayers ==
    tiler = "suburb" =>
        /\ \A u, v \in SucceededUnits :
              done[u].id # done[v].id => done[u].layer # done[v].layer
        /\ (\A u, v \in SucceededUnits : u # v => done[u].id # done[v].id) =>
              \A a, b \in 1..Len(successful_layers) :
                  a # b => successful_layers[a] # successful_layers[b]

\* =========================================================================
\* Properties of the two-largest scripts: empty offsets, the partition
\* =========================================================================
\* C27: an inward offset that returns an empty geometry is followed by an
\* attempt at the next smaller distance, exactly as one that throws, in both
\* scripts; an empty geometry is never appended to all_buffers.
C27_EmptyOffsetRetried ==
    script \in TwoLargestScripts =>
        /\ \A k \in 1..Len(calls) :
              LET c == calls[k]
                  D == IF script = "tas" THEN <<-2000, -1000, -500>> ELSE <<-2000, -1500>>
              IN \A j \in 1..Len(c.tried) :
                    (c.tried[j].oc \in {"empty", "throw"} /\ j < Len(D)) =>
                        (Len(c.tried) > j /\ c.tried[j + 1].d = D[j + 1])
        /\ \A b \in 1..Len(all_buffers) : ~all_buffers[b].empty

TwoOrMore ==
    /\ script \in TwoLargestScripts
    /\ pc \notin {"start", "merge", "dispatch"}
    /\ temp_buffer.kind = "MultiPolygon" /\ Len(temp_buffer.parts) >= 2

Ids(ps) == {ps[k].id : k \in 1..Len(ps)}

\* C28: of an initial unified buffer with n >= 2 parts, main_polygons holds
\* exactly 2 parts and other_polygons the remaining n - 2; every part is in
\* exactly one of them, and no part of other_polygons has a larger area than
\* a part of main_polygons.
C28_TwoLargestPartition ==
    TwoOrMore =>
        LET n == Len(temp_buffer.parts)
            others == other_polygons.v
        IN /\ other_polygons.def
           /\ Len(main_polygons) = 2 /\ Cardinality(Ids(main_polygons)) = 2
           /\ Len(others) = n - 2 /\ Cardinality(Ids(others)) = n - 2
           /\ Ids(main_polygons) \cup Ids(others) = 1..n
           /\ Ids(main_polygons) \cap Ids(others) = {}
           /\ \A k \in 1..2 : main_polygons[k].area = temp_buffer.parts[main_polygons[k].id]
           /\ \A k \in 1..Len(others) : others[k].area = temp_buffer.parts[others[k].id]
           /\ \A k \in 1..2 : \A j \in 1..Len(others) : main_polygons[k].area >= others[j].area

C28_Witness ==
    /\ TwoOrMore /\ pc = "done"
    /\ temp_buffer.parts = <<1, 2, 2>>
    /\ Ids(main_polygons) = {2, 3} /\ Ids(other_polygons.v) = {1}
    /\ output.geoms # <<>>

\* =========================================================================
\* Properties of the tilers' main loop: the tallies
\* =========================================================================
C29_Tallies ==
    /\ Len(done) <= Len(units)
    /\ \A u \in 1..Len(done) :
          /\ done[u].id = units[u]
          /\ done[u].tally \in {"successful", "failed", "skipped"}
    /\ successful = Cardinality({u \in 1..Len(done) : done[u].tally = "successful"})
    /\ failed = Cardinality({u \in 1..Len(done) : done[u].tally = "failed"})
    /\ skipped = Cardinality({u \in 1..Len(done) : done[u].tally = "skipped"})
    /\ successful + failed + skipped = Len(done)
    /\ tpc \in {"complete", "finished"} =>
          (Len(done) = Len(units) /\ successful + failed + skipped = Len(units))
    /\ tpc = "loop" => ENABLED (ProcessUnit \/ FinishLoop)

C29_LoopGoesOn ==
    tpc = "loop" =>
        /\ tpc' \in {"loop", "complete"}
        /\ Len(done') \in {Len(done), Len(done) + 1}
        /\ tpc' = "complete" => Len(done) = Len(units)

\* C29: every unit handed to a tiler's loop is processed once, in list
\* order, and counted in exactly one tally; successful + failed + skipped is
\* the number of units processed so far and, after the loop, the length of
\* the work list; no outcome of a unit ends the loop before the end of the
\* list.
C29_EveryUnitTalliedOnce == [](C29_Tallies) /\ [][C29_LoopGoesOn]_vars

C29_Witness ==
    /\ tiler = "suburb" /\ tpc = "finished" /\ Len(units) = 3
    /\ successful = 1 /\ failed = 1 /\ skipped = 1
    /\ done[1].tally = "failed" /\ done[2].tally = "skipped" /\ done[3].tally = "successful"

\* =========================================================================
\* The SILO point-data functions (SILOnotworking.py, SILOscript.py)
\* =========================================================================
\* Argument values are written as strings; "None" stands for Python's None
\* and "" for the empty string.
Stations == {"None", "", "40004"}
Lats == {"None", "-27.5"}
Lons == {"None", "153.0"}

IsNone(v) == v = "None"
\* bool(v) of a string or None
Truthy(v) == v \notin {"None", ""}

Args(st, la, lo, d) == [station |-> st, lat |-> la, lon |-> lo, dates |-> d]
StationRequest(st) ==
    [sent |-> TRUE, endpoint |-> "station", station |-> st, lat |-> "absent",
     lon |-> "absent"]
DataDrillRequest(la, lo) ==
    [sent |-> TRUE, endpoint |-> "datadrill", station |-> "absent", lat |-> la,
     lon |-> lo]

\* both functions, lines 42-43
MissingLocator(a) == IsNone(a.station) /\ (IsNone(a.lat) \/ IsNone(a.lon))

\* SILOnotworking.py:41-81: validation, then "if station:" picks the endpoint
\* and the locator parameters
pointdata(a) ==
    IF MissingLocator(a) THEN [raised |-> TRUE, request |-> NoRequest]
    ELSE IF Truthy(a.station)
    THEN [raised |-> FALSE, request |-> StationRequest(a.station)]
    ELSE [raised |-> FALSE, request |-> DataDrillRequest(a.lat, a.lon)]

\* SILOscript.py:41-74: validation of the locator and of the dates, then
\* "if station is not None:" picks the endpoint and the locator
pointdata_direct_url(a) ==
    IF MissingLocator(a) THEN [raised |-> TRUE, request |-> NoRequest]
    ELSE IF ~a.dates THEN [raised |-> TRUE, request |-> NoRequest]
    ELSE IF ~IsNone(a.station)
    THEN [raised |-> FALSE, request |-> StationRequest(a.station)]
    ELSE [raised |-> FALSE, request |-> DataDrillRequest(a.lat, a.lon)]

\* what can happen between requests.get and the return (80-130, 73-132)
Responses == {"ok", "request_error", "api_error_text", "parse_error", "other_error"}

InitSilo ==
    /\ BufIdle /\ TileIdle /\ RowIdle /\ JoinIdle
    /\ fn \in {"pointdata", "pointdata_direct_url"}
    /\ spc = "start"
    /\ args \in {Args(st, la, lo, d) : st \in Stations, la \in Lats, lo \in Lons,
                                       d \in BOOLEAN}
    /\ request = NoRequest
    /\ returned = "unset"

\* SILOnotworking.py:41-81
Pointdata ==
    /\ fn = "pointdata" /\ spc = "start"
    /\ LET r == pointdata(args)
       IN /\ request' = r.request
          /\ returned' = IF r.raised THEN "ValueError" ELSE returned
          /\ spc' = IF r.raised THEN "returned" ELSE "requested"
    /\ UNCHANGED <<bufVars, tileVars, rowVars, joinVars, fn, args>>

\* SILOscript.py:41-74
PointdataDirectUrl ==
    /\ fn = "pointdata_direct_url" /\ spc = "start"
    /\ LET r == pointdata_direct_url(args)
       IN /\ request' = r.request
          /\ returned' = IF r.raised THEN "ValueError" ELSE returned
          /\ spc' = IF r.raised THEN "returned" ELSE "requested"
    /\ UNCHANGED <<bufVars, tileVars, rowVars, joinVars, fn, args>>

\* SILOnotworking.py:80-130, SILOscript.py:73-132: everything after the
\* request is inside try; every handler returns None
Respond ==
    /\ spc = "requested"
    /\ \E resp \in Responses : returned' = IF resp = "ok" THEN "df" ELSE "None"
    /\ spc' = "returned"
    /\ UNCHANGED <<bufVars, tileVars, rowVars, joinVars, fn, args, request>>

NextSilo ==
    \/ Pointdata
    \/ PointdataDirectUrl
    \/ Respond

SpecSilo == InitSilo /\ [][NextSilo]_vars

\* C30: with no station and a missing latitude or longitude the function
\* raises ValueError and sends nothing; otherwise a request carries one
\* locator: the station, to the station endpoint, whenever a station
\* argument is given, else latitude and longitude, both present, to the
\* data-drill endpoint; after the request the function returns, it does not
\* raise.
C30_OneLocator ==
    fn \in {"pointdata", "pointdata_direct_url"} =>
        /\ (spc # "start" /\ args.station = "None"
              /\ (args.lat = "None" \/ args.lon = "None")) =>
               (returned = "ValueError" /\ ~request.sent)
        /\ returned = "ValueError" => ~request.sent
        /\ request.sent =>
              /\ args.station # "None" =>
                    /\ request.endpoint = "station"
                    /\ request.station = args.station
                    /\ request.lat = "absent" /\ request.lon = "absent"
              /\ args.station = "None" =>
                    /\ request.endpoint = "datadrill"
                    /\ request.station = "absent"
                    /\ request.lat = args.lat /\ request.lon = args.lon
              /\ request.endpoint = "datadrill" =>
                    (request.lat \notin {"None", "absent"}
                     /\ request.lon \notin {"None", "absent"})
        /\ (spc = "returned" /\ request.sent) => returned \in {"df", "None"}
====
